---------------------------- MODULE Spec2Model ----------------------------
(***************************************************************************)
(* A model of geneedit.py, the simulation of recessive loci in a cattle    *)
(* population (create_new_calf, pryce_mating and its helpers, edit_genes,  *)
(* the culling routines and the generation loop of run_scenario).          *)
(*                                                                         *)
(* Conventions                                                             *)
(*  - A Python list is a sequence, a dict of animals is a record.          *)
(*  - The recessives dictionary is a sequence of locus records in the      *)
(*    order of recessives.keys(); the index r of the source (0-based) is   *)
(*    r+1 here.                                                            *)
(*  - A probability is a percentage; a Bernoulli draw with parameter p is  *)
(*    a choice from Bern(p), which is one-valued for 0 and 100.            *)
(*  - A true breeding value is an integer; the continuous Mendelian        *)
(*    sampling term is a choice from a small set of integers.              *)
(***************************************************************************)
EXTENDS Integers, Sequences, FiniteSets, TLC

VARIABLES
    pc,          \* position of the modelled run
    call,        \* arguments of the create_new_calf call under study
    ret,         \* <<>> or <<result of that call>>
    sim,         \* the populations of a run: live and dead lists, generation, id history
    frame        \* the local variables of the routine that is running

vars == <<pc, call, ret, sim, frame>>

(***************************************************************************)
(* Helpers for lists.                                                      *)
(***************************************************************************)
Range(s) == {s[i] : i \in 1..Len(s)}

IndexOf(s, x) == CHOOSE i \in 1..Len(s) : s[i] = x /\ \A j \in 1..(i-1) : s[j] # x

(***************************************************************************)
(* Locus tables (the recessives dictionary).                               *)
(***************************************************************************)
Locus(n, l, e, m, v, f) ==
    [name |-> n, lethal |-> l, edit |-> e, edit_mode |-> m, value |-> v, frequency |-> f]

Horned == Locus("Horned", 0, 1, "D", 8, 50)
Lethal1 == Locus("Lethal1", 1, 1, "A", 4, 50)
Coat == Locus("Coat", 0, 0, "O", 4, 50)

keys(recessives) == [r \in 1..Len(recessives) |-> recessives[r].name]

Genotypes == {-1, 0, 1}

(***************************************************************************)
(* bernoulli.rvs(p): the outcomes a draw with parameter p percent can have. *)
(***************************************************************************)
Bern(p) == IF p <= 0 THEN {FALSE} ELSE IF p >= 100 THEN {TRUE} ELSE BOOLEAN

(***************************************************************************)
(* Animal records.  stray holds the integer keys 6, 7 and 8 that           *)
(* create_new_calf writes into the dictionary of a calf.                   *)
(***************************************************************************)
Animal(id, sire, dam, born, sex, herd, tbv, gt) ==
    [animal |-> id, sire |-> sire, dam |-> dam, born |-> born, sex |-> sex,
     herd |-> herd, alive |-> "A", reason |-> "", died |-> -1, tbv |-> tbv,
     inbreeding |-> 0, edit_status |-> [r \in 1..Len(gt) |-> 0],
     edit_count |-> [r \in 1..Len(gt) |-> 0], et_count |-> <<>>, bred |-> 0,
     genotypes |-> gt, stray |-> <<>>]

(***************************************************************************)
(* create_new_calf                                                         *)
(***************************************************************************)
\* The Mendelian sampling term random.normalvariate(0, 1) * 200 * var_adj.
MendelianSampling == {0, 1}

\* The gamete a parent of genotype gt can transmit.
draw_allele_swapped(gt) ==
    IF gt = 1 THEN {"A"} ELSE IF gt = 0 THEN {"A", "a"} ELSE {"A"}

draw_allele(gt) ==
    IF gt = 1 THEN {"A"} ELSE IF gt = 0 THEN {"A", "a"} ELSE {"a"}

\* calf_loss outside [0, 1] is replaced by 0.
clamp_calf_loss(calf_loss) ==
    IF calf_loss >= 0 /\ calf_loss <= 100 THEN calf_loss ELSE 0

\* The record formed before the loop over the recessives; the vectors are empty.
new_calf_record(sire, dam, calf_id, generation, sex, tbv) ==
    [animal |-> calf_id, sire |-> sire.animal, dam |-> dam.animal, born |-> generation,
     sex |-> sex, herd |-> dam.herd, alive |-> "A", reason |-> "", died |-> -1,
     tbv |-> tbv, inbreeding |-> 0, edit_status |-> <<>>, edit_count |-> <<>>,
     et_count |-> <<>>, bred |-> 0, genotypes |-> <<>>, stray |-> <<>>]

\* The partial result of a call: the calf, where the call stands (in the loop,
\* returned, or aborted by an exception) and, as a history of the run, the
\* death reasons assigned in order and the number of mortality draws made.
CalfState(calf) ==
    [calf |-> calf, at |-> "loop", deaths |-> <<>>, draws |-> [C |-> 0, H |-> 0, B |-> 0]]

\* Genotype step of iteration r: draw the gametes and append the genotype.
calf_genotype(st, sire, dam, recessives, r, generation, debug) ==
    LET rv == recessives[r]
    IN UNION {
        UNION {
            IF s = "a" /\ d = "a" THEN
                {[st EXCEPT
                    !.calf.stray = IF rv.lethal = 1 THEN <<"D", "R", generation>> ELSE @,
                    !.deaths = IF rv.lethal = 1 THEN Append(@, "R") ELSE @,
                    !.calf.genotypes = Append(@, -1)]}
            ELSE IF s = "A" /\ d = "A" THEN
                {IF debug
                    THEN [st EXCEPT !.at = "KeyError"]
                    ELSE [st EXCEPT !.calf.genotypes = Append(@, 0)],
                 [st EXCEPT !.calf.genotypes = Append(@, 1)]}
            ELSE
                {[st EXCEPT !.calf.genotypes = Append(@, 0)]}
            : d \in draw_allele(dam.genotypes[r])}
        : s \in draw_allele(sire.genotypes[r])}

\* Calfhood loss of iteration r.
calf_calfhood(st, generation, calf_loss) ==
    {IF loss
        THEN [st EXCEPT !.calf.alive = "D", !.calf.reason = "C", !.calf.died = generation,
                        !.at = "returned", !.deaths = Append(@, "C"), !.draws.C = @ + 1]
        ELSE [st EXCEPT !.draws.C = @ + 1]
     : loss \in Bern(calf_loss)}

\* Dehorning of iteration r: only live calves, only when Horned is a recessive.
calf_dehorning(st, recessives, generation, dehorning_loss) ==
    IF st.calf.alive = "A" /\ "Horned" \in Range(keys(recessives)) THEN
        LET horned_loc == IndexOf(keys(recessives), "Horned")
        IN IF horned_loc > Len(st.calf.genotypes) THEN
               {[st EXCEPT !.at = "IndexError"]}
           ELSE IF st.calf.genotypes[horned_loc] = -1 THEN
               {IF loss
                   THEN [st EXCEPT !.calf.alive = "D", !.calf.reason = "H",
                                   !.calf.died = generation, !.at = "returned",
                                   !.deaths = Append(@, "H"), !.draws.H = @ + 1]
                   ELSE [st EXCEPT !.draws.H = @ + 1]
                : loss \in Bern(dehorning_loss)}
           ELSE {st}
    ELSE {st}

\* Beef harvest of iteration r: only live male calves; the loop goes on.
calf_harvest(st, generation, harvest_beef) ==
    IF st.calf.alive = "A" /\ st.calf.sex = "M" THEN
        {IF harvested
            THEN [st EXCEPT !.calf.alive = "D", !.calf.reason = "B", !.calf.died = generation,
                            !.deaths = Append(@, "B"), !.draws.B = @ + 1]
            ELSE [st EXCEPT !.draws.B = @ + 1]
         : harvested \in Bern(harvest_beef)}
    ELSE {st}

\* The end of iteration r: the edit vectors grow by one entry.
calf_edit_fields(st) ==
    [st EXCEPT !.calf.edit_status = Append(@, 0), !.calf.edit_count = Append(@, 0),
               !.calf.et_count = Append(@, 0)]

\* One iteration of the loop over the recessives.
calf_iteration(st, sire, dam, recessives, r, generation, calf_loss, dehorning_loss, harvest_beef, debug) ==
    LET Go(S, F(_)) == UNION {IF s.at = "loop" THEN F(s) ELSE {s} : s \in S}
        G1 == calf_genotype(st, sire, dam, recessives, r, generation, debug)
        F2(s) == calf_calfhood(s, generation, calf_loss)
        F3(s) == calf_dehorning(s, recessives, generation, dehorning_loss)
        F4(s) == calf_harvest(s, generation, harvest_beef)
        F5(s) == {calf_edit_fields(s)}
    IN Go(Go(Go(Go(G1, F2), F3), F4), F5)

RECURSIVE calf_loop(_, _, _, _, _, _, _, _, _, _)
calf_loop(S, sire, dam, recessives, r, generation, calf_loss, dehorning_loss, harvest_beef, debug) ==
    IF r > Len(recessives) THEN S
    ELSE calf_loop(
            UNION {IF s.at = "loop"
                      THEN calf_iteration(s, sire, dam, recessives, r, generation, calf_loss,
                                          dehorning_loss, harvest_beef, debug)
                      ELSE {s} : s \in S},
            sire, dam, recessives, r + 1, generation, calf_loss, dehorning_loss,
            harvest_beef, debug)

\* The set of results create_new_calf can give for its arguments.
create_new_calf(sire, dam, recessives, calf_id, generation, calf_loss, dehorning_loss, harvest_beef, debug) ==
    LET loss == clamp_calf_loss(calf_loss)
        pa == (sire.tbv + dam.tbv) \div 2
        first == {CalfState(new_calf_record(sire, dam, calf_id, generation, sex, pa + ms))
                    : sex \in {"M", "F"}, ms \in MendelianSampling}
        last == calf_loop(first, sire, dam, recessives, 1, generation, loss,
                          dehorning_loss, harvest_beef, debug)
    IN {IF s.at = "loop" THEN [s EXCEPT !.at = "returned"] ELSE s : s \in last}

(***************************************************************************)
(* SpecCalf: create_new_calf on every pair of parental genotype vectors,   *)
(* for several locus tables and mortality rates.                           *)
(***************************************************************************)
CalfTables ==
    {<<Horned>>, <<Lethal1>>, <<Horned, Lethal1>>, <<Lethal1, Horned>>, <<Lethal1, Coat>>}

CalfLossRates == {0, 50, 100, 150}
DehorningRates == {0, 50}
HarvestRates == {0, 50}

GenotypeVectors(n) == [1..n -> Genotypes]

CalfInit ==
    /\ pc = "call"
    /\ ret = <<>>
    /\ sim = <<>>
    /\ frame = <<>>
    /\ \E t \in CalfTables, cl \in CalfLossRates, dl \in DehorningRates,
          hb \in HarvestRates, dbg \in BOOLEAN :
         \E sg \in GenotypeVectors(Len(t)), dg \in GenotypeVectors(Len(t)) :
            call = [sire |-> Animal(1, 0, 0, 0, "F", 0, 2, sg),
                    dam |-> Animal(2, 0, 0, 0, "F", 0, 0, dg),
                    recessives |-> t, calf_id |-> 3, generation |-> 1,
                    calf_loss |-> cl, dehorning_loss |-> dl, harvest_beef |-> hb,
                    debug |-> dbg]

CallCreateNewCalf ==
    /\ pc = "call"
    /\ \E res \in create_new_calf(call.sire, call.dam, call.recessives, call.calf_id,
                                  call.generation, call.calf_loss, call.dehorning_loss,
                                  call.harvest_beef, call.debug) :
          ret' = <<res>>
    /\ pc' = "done"
    /\ UNCHANGED <<call, sim, frame>>

CalfNext == CallCreateNewCalf

SpecCalf == CalfInit /\ [][CalfNext]_vars

(***************************************************************************)
(* Properties of create_new_calf (checked under SpecCalf).                 *)
(***************************************************************************)
CalfReturned == ret # <<>> /\ ret[1].at = "returned"

\* C3: every calf that is homozygous-recessive (-1) at a lethal locus is returned
\* dead, with reason "R" (recessive lethal) and died equal to its birth generation.
C3_LethalCalfReturnedDead ==
    CalfReturned =>
        \A r \in 1..Len(ret[1].calf.genotypes) :
            (ret[1].calf.genotypes[r] = -1 /\ call.recessives[r].lethal = 1) =>
                /\ ret[1].calf.alive = "D"
                /\ ret[1].calf.reason = "R"
                /\ ret[1].calf.died = ret[1].calf.born

\* C4: create_new_calf returns a record for every pair of parents and every locus
\* table, also when Horned is not the first locus; it never aborts.
C4_AlwaysReturnsARecord ==
    ret # <<>> => ret[1].at = "returned"

\* C5: every calf returned, dead or alive, has genotype, edit-status and edit-count
\* vectors with exactly one entry per locus.
C5_CalfVectorsFullLength ==
    CalfReturned =>
        /\ Len(ret[1].calf.genotypes) = Len(call.recessives)
        /\ Len(ret[1].calf.edit_status) = Len(call.recessives)
        /\ Len(ret[1].calf.edit_count) = Len(call.recessives)

\* The genotypes one allele of each parent can form; major x major may also give
\* a heterozygote by mutation.
Mendel(s, d) ==
    IF s = 1 /\ d = 1 THEN {1, 0}
    ELSE IF s = -1 /\ d = -1 THEN {-1}
    ELSE IF {s, d} = {1, -1} THEN {0}
    ELSE IF {s, d} = {0, 1} THEN {1, 0}
    ELSE IF {s, d} = {0, -1} THEN {0, -1}
    ELSE {1, 0, -1}

\* C6: at every locus the genotype of the calf is one that one allele from each
\* parent can form (major x major may give 0 by mutation, never -1).
C6_MendelianClosure ==
    ret # <<>> =>
        \A r \in 1..Len(ret[1].calf.genotypes) :
            ret[1].calf.genotypes[r]
                \in Mendel(call.sire.genotypes[r], call.dam.genotypes[r])

\* C6 witness: a returned calf of two heterozygotes is homozygous-recessive at that
\* locus, and one of two homozygous-major parents is a carrier by mutation.
C6_Witness ==
    /\ CalfReturned
    /\ Len(ret[1].calf.genotypes) = 2
    /\ call.sire.genotypes = <<0, 1>> /\ call.dam.genotypes = <<0, 1>>
    /\ ret[1].calf.genotypes = <<-1, 0>>

\* The death reasons assigned by the three drawn checks (calfhood, dehorning, beef).
drawn_deaths(st) == SelectSeq(st.deaths, LAMBDA x : x # "R")

\* C7: the mortality checks run once per calf, in the order recessive-lethal,
\* calfhood, dehorning, beef harvest, and each is terminal: each drawn check is
\* drawn at most once for a calf, at most one of them assigns a death reason, and
\* the record carries the reason of the first check that triggered.
C7_MortalityChecksOnceAndTerminal ==
    ret # <<>> =>
        /\ ret[1].draws.C <= 1 /\ ret[1].draws.H <= 1 /\ ret[1].draws.B <= 1
        /\ Len(drawn_deaths(ret[1])) <= 1
        /\ drawn_deaths(ret[1]) # <<>> =>
              /\ ret[1].calf.alive = "D"
              /\ ret[1].calf.reason = drawn_deaths(ret[1])[1]

(***************************************************************************)
(* pryce_mating: one cell of the value matrix b_mat.                       *)
(*                                                                         *)
(* Values are kept in quarters of a unit (the cell and the discounts are   *)
(* multiplied by 4) so that the 1/4, 1/2 and 3/4 penalties stay integers.  *)
(* A coefficient of inbreeding is a percentage, so inbr * 100 * flambda is *)
(* inbr * flambda here.                                                    *)
(***************************************************************************)
\* What one locus subtracts from the cell of bull genotype b_gt and cow genotype c_gt.
risk_discount(b_gt, c_gt, rv, carrier_penalty) ==
    IF b_gt = -1 /\ c_gt = -1 THEN 4 * rv.value
    ELSE IF b_gt = 1 /\ c_gt = 1 THEN 0
    ELSE IF (b_gt = 1 /\ c_gt = 0) \/ (b_gt = 0 /\ c_gt = 1) THEN
        IF carrier_penalty THEN rv.value ELSE 0
    ELSE IF (b_gt = 1 /\ c_gt = -1) \/ (b_gt = -1 /\ c_gt = 1) THEN
        IF carrier_penalty THEN 2 * rv.value ELSE 0
    ELSE IF (b_gt = 0 /\ c_gt = -1) \/ (b_gt = -1 /\ c_gt = 0) THEN
        IF carrier_penalty THEN rv.value + 2 * rv.value ELSE 0
    ELSE
        IF carrier_penalty THEN 2 * rv.value ELSE rv.value

\* The loop over the recessives: the discounts of the loci r..Len(recessives).
RECURSIVE risk_discounts(_, _, _, _, _)
risk_discounts(b, c, recessives, r, carrier_penalty) ==
    IF r > Len(recessives) THEN 0
    ELSE risk_discount(b.genotypes[r], c.genotypes[r], recessives[r], carrier_penalty)
         + risk_discounts(b, c, recessives, r + 1, carrier_penalty)

\* b_mat[bidx, cidx] for bull b and cow c whose calf has inbreeding inbr.
b_mat_cell(b, c, recessives, inbr, flambda, penalty, carrier_penalty) ==
    (2 * (b.tbv + c.tbv)) - (4 * inbr * flambda)
        - (IF penalty THEN risk_discounts(b, c, recessives, 1, carrier_penalty) ELSE 0)

CellTables == {<<Horned>>, <<Lethal1, Coat>>}
CellInbreeding == {0, 25}
CellLambdas == {0, 1}

CellInit ==
    /\ pc = "cell"
    /\ ret = <<>>
    /\ sim = <<>>
    /\ frame = <<>>
    /\ \E t \in CellTables, f \in CellInbreeding, fl \in CellLambdas,
          pen \in BOOLEAN, cp \in BOOLEAN :
         \E bg \in GenotypeVectors(Len(t)), cg \in GenotypeVectors(Len(t)) :
            call = [b |-> Animal(1, 0, 0, 0, "F", 0, 2, bg),
                    c |-> Animal(2, 0, 0, 0, "F", 0, 0, cg),
                    recessives |-> t, inbr |-> f, flambda |-> fl,
                    penalty |-> pen, carrier_penalty |-> cp]

ComputeCell ==
    /\ pc = "cell"
    /\ ret' = <<b_mat_cell(call.b, call.c, call.recessives, call.inbr, call.flambda,
                           call.penalty, call.carrier_penalty)>>
    /\ pc' = "done"
    /\ UNCHANGED <<call, sim, frame>>

CellNext == ComputeCell
SpecCell == CellInit /\ [][CellNext]_vars

\* The table of the discounts, in quarters of the value v of a locus, for a pair of
\* parental genotypes in either order.
DiscountTable(g1, g2, v, carrier_penalty) ==
    IF {g1, g2} = {-1} THEN 4 * v
    ELSE IF {g1, g2} = {1} THEN 0
    ELSE IF {g1, g2} = {1, 0} THEN (IF carrier_penalty THEN v ELSE 0)
    ELSE IF {g1, g2} = {1, -1} THEN (IF carrier_penalty THEN 2 * v ELSE 0)
    ELSE IF {g1, g2} = {0, -1} THEN (IF carrier_penalty THEN 3 * v ELSE 2 * v)
    ELSE (IF carrier_penalty THEN 2 * v ELSE v)

RECURSIVE DiscountTableSum(_, _, _, _, _)
DiscountTableSum(bg, cg, recessives, r, carrier_penalty) ==
    IF r > Len(recessives) THEN 0
    ELSE DiscountTable(bg[r], cg[r], recessives[r].value, carrier_penalty)
         + DiscountTableSum(bg, cg, recessives, r + 1, carrier_penalty)

\* C10: with the recessive penalty enabled, what the loci subtract from a cell of
\* the value matrix is, locus by locus, the discount of the table, for every pair
\* of genotypes in either order and for both settings of the carrier penalty.
C10_DiscountEqualsTable ==
    (pc = "done" /\ call.penalty) =>
        (2 * (call.b.tbv + call.c.tbv)) - (4 * call.inbr * call.flambda) - ret[1]
            = DiscountTableSum(call.b.genotypes, call.c.genotypes, call.recessives, 1,
                               call.carrier_penalty)

(***************************************************************************)
(* Lists of animals.                                                       *)
(***************************************************************************)
Max(S) == CHOOSE x \in S : \A y \in S : y <= x

\* list.sort(key=...) is stable: the element at i goes after every element with a
\* smaller key and after the earlier elements with the same key.
StableSort(s, key) ==
    LET n == Len(s)
        pos(i) == 1 + Cardinality({j \in 1..n : key[j] < key[i] \/ (key[j] = key[i] /\ j < i)})
    IN [k \in 1..n |-> s[CHOOSE i \in 1..n : pos(i) = k]]

Perms(n) == {p \in [1..n -> 1..n] : \A i, j \in 1..n : p[i] = p[j] => i = j}

\* random.shuffle(s): every order of the list.
Shuffles(s) == {[i \in 1..Len(s) |-> s[p[i]]] : p \in Perms(Len(s))}

\* ma.argsort(v): an order of the indices in which the values do not decrease.
ArgSorts(v) == {p \in Perms(Len(v)) : \A i, j \in 1..Len(v) : i < j => v[p[i]] <= v[p[j]]}

Population(cows, bulls, dead_cows, dead_bulls) ==
    [cows |-> cows, bulls |-> bulls, dead_cows |-> dead_cows, dead_bulls |-> dead_bulls]

Lists(P) == <<P.cows, P.bulls, P.dead_cows, P.dead_bulls>>

\* The ids in a sequence of lists.
id_list(lists) == UNION {{lists[k][i].animal : i \in 1..Len(lists[k])} : k \in 1..Len(lists)}

\* A variant that looks at the lists of the population only.
get_next_id_own_lists(P, extras) ==
    IF id_list(Lists(P)) = {} THEN Max(id_list(extras)) + 1 ELSE Max(id_list(Lists(P))) + 1

\* get_next_id: the largest id in the four lists and the extra lists, plus one
\* (an IndexError when there is no animal at all; the callers test for it).
get_next_id(P, extras) == Max(id_list(Lists(P) \o extras)) + 1

fetch_ages(animal_list, generation, bull_mating_age, cow_mating_age) ==
    SelectSeq(animal_list,
              LAMBDA a : \/ (a.sex = "M" /\ generation - a.born >= bull_mating_age)
                         \/ (a.sex = "F" /\ generation - a.born >= cow_mating_age))

\* The herds of a list of animals, each once, in the order of first appearance.
get_unique_herd_list(animals) ==
    LET first == SelectSeq([i \in 1..Len(animals) |-> i],
                           LAMBDA i : \A j \in 1..(i - 1) : animals[j].herd # animals[i].herd)
    IN [k \in 1..Len(first) |-> animals[first[k]].herd]

Take(s, n) == SubSeq(s, 1, IF n < Len(s) THEN n ELSE Len(s))

\* s[0:n] of Python: a negative n counts from the end of the list.
slice(s, n) == IF n >= 0 THEN Take(s, n) ELSE Take(s, IF Len(s) + n < 0 THEN 0 ELSE Len(s) + n)

\* [b for b in bulls if b['animal'] not in bull_used]
not_used_or_used(bulls, bull_used) == bulls

not_used(bulls, bull_used) == SelectSeq(bulls, LAMBDA b : b.animal \notin bull_used)

(***************************************************************************)
(* get_herd_bulls, bull_criterion 'random': the bulls offered to one herd. *)
(* The list of live bulls is shuffled in place after the bulls of mating   *)
(* age were read from it.                                                  *)
(***************************************************************************)
get_herd_bulls(bulls, generation, herd_counter, bull_used, a) ==
    LET herds == Len(get_unique_herd_list(bulls))
        numberof_herds == IF herds = 200 \/ herds = 10 THEN herds ELSE herds + 1
        aged_bulls == fetch_ages(bulls, generation, a.bull_mating_age, a.cow_mating_age)
        bulls_per_herd == Len(aged_bulls) \div numberof_herds
        remainder_herds == Len(aged_bulls) % numberof_herds
        unused == not_used(aged_bulls, bull_used)
        herd_bulls ==
            IF a.bull_unique THEN
                IF bulls_per_herd < a.service_bulls THEN
                    IF herd_counter < remainder_herds THEN Take(unused, bulls_per_herd + 1)
                    ELSE Take(unused, bulls_per_herd)
                ELSE Take(unused, a.service_bulls)
            ELSE
                IF (Len(aged_bulls) \div 5) + 1 < a.service_bulls
                    THEN Take(aged_bulls, a.service_bulls)
                    ELSE Take(aged_bulls, Len(aged_bulls) \div 5)
    IN {[herd_bulls |-> herd_bulls, bulls |-> shuffled, at |-> "returned"]
        : shuffled \in Shuffles(bulls)}

\* fetch_rec_and_age for the recessive 'Horned': the animals of mating age
\* whose genotype at the locus is among those that `copies` asks for.
fetch_rec_and_age(animal_list, generation, recessives, bull_mating_age, cow_mating_age, copies) ==
    IF "Horned" \notin Range(keys(recessives)) \/ copies \notin {0, 1, 2, 4, 5, 6} THEN <<>>
    ELSE LET rec_loc == IndexOf(keys(recessives), "Horned")
             wanted == CASE copies = 0 -> {1} [] copies = 1 -> {0} [] copies = 2 -> {-1}
                         [] copies = 4 -> {0, 1} [] copies = 5 -> {0, -1} [] OTHER -> {-1, 1}
         IN SelectSeq(fetch_ages(animal_list, generation, bull_mating_age, cow_mating_age),
                      LAMBDA x : x.genotypes[rec_loc] \in wanted)

(***************************************************************************)
(* get_herd_bulls, bull_criterion 'polled': the polled bulls of mating age *)
(* and the other bulls of mating age are shuffled, and the portfolio is    *)
(* cut from them as bull_deficit and bull_unique ask.                      *)
(***************************************************************************)
get_herd_bulls_polled(bulls, recessives, generation, herd_counter, bull_used, a) ==
    LET herds == Len(get_unique_herd_list(bulls))
        numberof_herds == IF herds = 200 \/ herds = 10 THEN herds ELSE herds + 1
        sb == a.service_bulls
        bulls_needed == sb * numberof_herds
        aged_bulls == fetch_ages(bulls, generation, a.bull_mating_age, a.cow_mating_age)
        bulls_per_herd == Len(aged_bulls) \div numberof_herds
        polled == fetch_rec_and_age(bulls, generation, recessives, a.bull_mating_age,
                                    a.cow_mating_age, a.bull_copies)
        others == SelectSeq(aged_bulls, LAMBDA b : b \notin Range(polled))
        remainder_herds == Len(aged_bulls) % numberof_herds
        fifth(l) == IF (Len(aged_bulls) \div 5) + 1 < sb THEN Take(l, sb) ELSE Take(l, Len(l) \div 5)
        portfolio(mating_bulls, other_bulls) ==
            LET polled_herds == (Len(mating_bulls) + bulls_per_herd - 1) \div bulls_per_herd
                nonremainder_herd_start == polled_herds + remainder_herds
                free == not_used(mating_bulls, bull_used)
                free_others == not_used(other_bulls, bull_used)
                use_horned ==
                    IF a.bull_unique THEN
                        IF bulls_per_herd < sb THEN
                            LET first == Take(free, bulls_per_herd)
                            IN IF Len(first) = bulls_per_herd THEN first
                               ELSE IF Len(first) > 0
                                       THEN first \o Take(free_others, bulls_per_herd - Len(first))
                               ELSE IF remainder_herds > 0 /\ herd_counter < nonremainder_herd_start
                                       THEN Take(free_others, bulls_per_herd + 1)
                               ELSE Take(free_others, bulls_per_herd)
                        ELSE LET first == Take(free, sb)
                             IN IF Len(first) < sb THEN first \o Take(free_others, sb - Len(first))
                                ELSE first
                    ELSE mating_bulls \o slice(other_bulls, sb - Len(mating_bulls))
                polled_per_herd == Len(mating_bulls) \div numberof_herds
                polled_remainder_herds == Len(mating_bulls) % numberof_herds
                open_herds == IF Len(mating_bulls) >= numberof_herds THEN 0
                              ELSE numberof_herds - polled_remainder_herds
                open ==
                    IF a.bull_unique THEN
                        IF polled_per_herd < sb THEN
                            IF herd_counter < polled_remainder_herds THEN Take(free, polled_per_herd + 1)
                            ELSE IF open_herds = 0 THEN Take(free, polled_per_herd)
                            ELSE <<>>
                        ELSE IF polled_per_herd > sb THEN Take(free, sb)
                        ELSE <<>>
                    ELSE Take(mating_bulls, sb)
            IN IF Len(mating_bulls) < bulls_needed THEN
                   CASE a.bull_deficit = "use_horned" -> use_horned
                     [] a.bull_deficit = "open" -> open
                     [] a.bull_deficit = "no_limit" -> fifth(mating_bulls)
                     [] OTHER -> <<>>
               ELSE IF a.bull_unique THEN Take(free, sb)
               ELSE fifth(mating_bulls)
    IN IF bulls_per_herd = 0
          THEN {[herd_bulls |-> <<>>, bulls |-> bulls, at |-> "ZeroDivisionError"]}
          ELSE {[herd_bulls |-> portfolio(m, o), bulls |-> bulls, at |-> "returned"]
                : m \in Shuffles(polled), o \in Shuffles(others)}

(***************************************************************************)
(* compute_inbreeding with proxy_matings: the portfolios of the herds, the *)
(* mating counters and the coefficients of inbreeding.  A portfolio refers *)
(* to the records of the live lists; here it holds their indices.          *)
(***************************************************************************)
\* One pass of the loop over the herds; st carries the list of live bulls, the
\* ids of the bulls used so far and the portfolios of the herds done.
herd_step(st, herd, cows, generation, a, g) ==
    LET by_tbv == StableSort(g.herd_bulls, [i \in 1..Len(g.herd_bulls) |-> 0 - g.herd_bulls[i].tbv])
        herd_bulls == Take(by_tbv, a.service_bulls)
        aged(i) == \/ (cows[i].sex = "M" /\ generation - cows[i].born >= a.globals.bull_mating_age)
                   \/ (cows[i].sex = "F" /\ generation - cows[i].born >= a.globals.cow_mating_age)
        herd_cows == SelectSeq([i \in 1..Len(cows) |-> i],
                               LAMBDA i : /\ aged(i)
                                          /\ cows[i].herd = herd
                                          /\ \A j \in 1..(i - 1) : cows[j] # cows[i])
    IN [bulls |-> g.bulls,
        at |-> g.at,
        bull_used |-> st.bull_used \cup Range([i \in 1..Len(g.herd_bulls) |-> g.herd_bulls[i].animal]),
        bull_portfolio |-> Append(st.bull_portfolio, herd_bulls),
        cow_portfolio |-> Append(st.cow_portfolio, IF herd_bulls = <<>> THEN <<>> ELSE herd_cows)]

RECURSIVE herd_portfolios(_, _, _, _, _)
herd_portfolios(st, herd, cows, generation, a) ==
    IF herd >= a.base_herds \/ st.at # "returned" THEN {st}
    ELSE LET b == [bull_unique |-> a.bull_unique,
                   service_bulls |-> a.service_bulls,
                   bull_deficit |-> a.bull_deficit,
                   bull_copies |-> a.bull_copies,
                   bull_mating_age |-> a.globals.bull_mating_age,
                   cow_mating_age |-> a.globals.cow_mating_age]
         IN UNION {herd_portfolios(herd_step(st, herd, cows, generation, a, g), herd + 1, cows, generation, a)
                   : g \in (IF a.bull_criterion = "polled"
                               THEN get_herd_bulls_polled(st.bulls, a.globals.recessives, generation,
                                                          herd, st.bull_used, b)
                               ELSE get_herd_bulls(st.bulls, generation, herd, st.bull_used, b))}

\* The coefficients inbupgf90 can report, in percent.
InbreedingValues == {0, 25}

\* The output of the solver for a set of pedigree keys: an animal of `inbred` has
\* one of the values above, any other animal is not inbred.
SolverOutputs(ks, inbred) ==
    {[k \in ks |-> IF k \in inbred THEN g[k] ELSE 0] : g \in [inbred -> InbreedingValues]}

set_inbreeding(animals, own) ==
    [i \in 1..Len(animals) |-> [animals[i] EXCEPT !.inbreeding = own[animals[i].animal]]]

\* The pedigree holds the animals of the four lists, and for each pair of a herd's
\* portfolios a calf whose parents are the sire of the bull and the dam of the
\* cow.  An animal can be inbred only when its parents are known and related, that
\* is, not when both have no known parent in the pedigree.  `pedigree` is the
\* file given to the solver: a row for each animal of the four lists, and the
\* rows of the proxy calves.
\* The solver writes its output next to the pedigree file, and the coefficients
\* are read from the file named coifile (IOError if the solver did not write
\* it).  The coefficients are then written into the records list by list, and
\* the first animal that the output lacks raises KeyError; `solved` tells
\* whether the output of the solver had a coefficient for every animal.
compute_inbreeding(P, generation, a) ==
    LET start == [bulls |-> P.bulls, at |-> "returned", bull_used |-> {},
                  bull_portfolio |-> <<>>, cow_portfolio |-> <<>>]
        animals == P.cows \o P.dead_cows \o P.bulls \o P.dead_bulls
        ids == id_list(<<animals>>)
        base(id) == \A i \in 1..Len(animals) :
                        animals[i].animal = id => (animals[i].sire = 0 \/ animals[i].dam = 0)
        related(sire, dam) == sire # 0 /\ dam # 0 /\ ~(base(sire) /\ base(dam))
        inbred == {id \in ids : \E i \in 1..Len(animals) :
                                   animals[i].animal = id /\ related(animals[i].sire, animals[i].dam)}
        pedfile == IF a.filetag = "" THEN <<"compute_inbreeding_r_", generation, ".txt">>
                   ELSE IF a.penalty THEN <<"compute_inbreeding_r", a.filetag, "_", generation, ".txt">>
                   ELSE <<"compute_inbreeding", a.filetag, "_", generation, ".txt">>
        coifile == IF a.filetag = ""
                      THEN IF a.penalty THEN <<"compute_inbreeding_r_", generation, ".txt", ".solinb">>
                           ELSE <<"compute_inbreeding_", generation, ".txt", ".solinb">>
                   ELSE IF a.penalty
                      THEN <<"compute_inbreeding_r", a.filetag, "_", generation, ".txt", ".solinb">>
                   ELSE <<"compute_inbreeding", a.filetag, "_", generation, ".txt", ".solinb">>
        until(list, offset, own, missing) ==
            [i \in 1..Len(list) |-> IF offset + i < missing
                                       THEN [list[i] EXCEPT !.inbreeding = own[list[i].animal]]
                                       ELSE list[i]]
    IN UNION {
        LET pairs == UNION {{<<st.bull_portfolio[h][i], P.cows[st.cow_portfolio[h][k]]>>
                               : i \in 1..Len(st.bull_portfolio[h]), k \in 1..Len(st.cow_portfolio[h])}
                            : h \in 1..Len(st.bull_portfolio)}
            calf_ids == {<<x[1].animal, x[2].animal>> : x \in pairs}
            inbred_calves == {<<x[1].animal, x[2].animal>> : x \in {y \in pairs : related(y[1].sire, y[2].dam)}}
            failed(at, solved, Q) == [at |-> at, solved |-> solved, P |-> Q, matings |-> <<>>,
                                      bull_portfolio |-> <<>>, cow_portfolio |-> <<>>,
                                      inbr |-> <<>>, own |-> <<>>, pedigree |-> <<>>]
        IN IF st.at # "returned" THEN {failed(st.at, "none", [P EXCEPT !.bulls = st.bulls])}
           ELSE IF pedfile \o <<".solinb">> # coifile
                   THEN {failed("IOError", "complete", [P EXCEPT !.bulls = st.bulls])}
           ELSE {[at |-> "returned",
                  solved |-> "complete",
                  P |-> Population(set_inbreeding(P.cows, own), set_inbreeding(st.bulls, own),
                                   set_inbreeding(P.dead_cows, own), set_inbreeding(P.dead_bulls, own)),
                  matings |-> [id \in id_list(<<P.bulls>>) |-> 0],
                  bull_portfolio |-> [h \in 1..Len(st.bull_portfolio) |->
                                         [i \in 1..Len(st.bull_portfolio[h]) |->
                                             IndexOf(st.bulls, st.bull_portfolio[h][i])]],
                  cow_portfolio |-> st.cow_portfolio,
                  inbr |-> calf,
                  own |-> own,
                  pedigree |-> [old |-> [i \in 1..Len(animals) |->
                                            <<animals[i].animal, animals[i].sire, animals[i].dam,
                                              animals[i].born + 10>>],
                                calves |-> {<<<<x[1].animal, x[2].animal>>, x[1].sire, x[2].dam,
                                              generation + 10>> : x \in pairs}]]
                 : own \in SolverOutputs(ids, inbred),
                   calf \in SolverOutputs(calf_ids, inbred_calves)}
                \cup
                {failed("KeyError", "lacking",
                        Population(until(P.cows, 0, own, missing),
                                   until(st.bulls, Len(P.cows) + Len(P.dead_cows), own, missing),
                                   until(P.dead_cows, Len(P.cows), own, missing),
                                   until(P.dead_bulls, Len(P.cows) + Len(P.dead_cows) + Len(st.bulls),
                                         own, missing)))
                   : own \in SolverOutputs(ids, inbred), missing \in 1..Len(animals)}
        : st \in herd_portfolios(start, 0, P.cows, generation, a)}

(***************************************************************************)
(* pryce_mating.  call holds the arguments of run_scenario, sim the lists  *)
(* of the two populations and frame the local variables of the call for    *)
(* the population frame.who.                                               *)
(***************************************************************************)
other(who) == IF who = "main" THEN "nucleus" ELSE "main"

\* The arguments run_scenario passes to pryce_mating for a population, and the
\* module globals compute_inbreeding reads.
pryce_args(c, who) ==
    [recessives |-> IF who = "main" THEN c.recessives ELSE c.nucleus_recessives,
     max_matings |-> IF who = "main" THEN c.max_matings ELSE c.nucleus_max_matings,
     base_herds |-> IF who = "main" THEN c.base_herds ELSE c.nucleus_base_herds,
     service_bulls |-> IF who = "main" THEN c.service_bulls ELSE c.nucleus_service_bulls,
     penalty |-> c.scenario \in {"pryce_r", "polled_r"},
     calf_loss |-> IF who = "main" \/ c.scenario \in {"pryce", "pryce_r"}
                      THEN c.calf_loss ELSE c.nucleus_calf_loss,
     dehorning_loss |-> IF who = "main" \/ c.scenario \in {"pryce", "pryce_r"}
                           THEN c.dehorning_loss ELSE c.nucleus_dehorning_loss,
     harvest_beef |-> IF who = "main" \/ c.scenario \in {"pryce", "pryce_r"}
                         THEN c.harvest_beef ELSE c.nucleus_harvest_beef,
     edit_prop |-> c.edit_prop, edit_type |-> c.edit_type, edit_trials |-> c.edit_trials,
     embryo_trials |-> c.embryo_trials, flambda |-> c.flambda,
     bull_deficit |-> c.bull_deficit, carrier_penalty |-> c.carrier_penalty,
     bull_unique |-> c.bull_unique, debug |-> c.debug,
     bull_criterion |-> c.bull_criterion,
     filetag |-> IF who = "main" THEN c.filetag ELSE c.nucleus_filetag,
     bull_copies |-> c.bull_copies,
     globals |-> [bull_mating_age |-> c.bull_mating_age, cow_mating_age |-> c.cow_mating_age,
                  recessives |-> c.recessives]]

\* A variant of the capacity test that lets a bull go one mating over.
at_capacity_after(matings, animal, max_matings, bull_deficit) ==
    matings[animal] > max_matings /\ bull_deficit # "no_limit"

\* "Does this bull still have matings available?"
at_capacity(matings, animal, max_matings, bull_deficit) ==
    matings[animal] >= max_matings /\ bull_deficit # "no_limit"

\* The start of pryce_mating: the cap on matings, compute_inbreeding, the next id,
\* and all cows set open.
PryceBegin ==
    /\ pc = "pryce_mating"
    /\ LET who == frame.who
           a == pryce_args(call, who)
       IN \E ci \in compute_inbreeding(sim[who], sim.generation, a) :
            IF ci.at # "returned"
               THEN /\ pc' = "aborted"
                    /\ ret' = [at |-> ci.at, solved |-> ci.solved]
                    /\ sim' = [sim EXCEPT ![who] = ci.P]
                    /\ UNCHANGED frame
               ELSE /\ frame' = [who |-> who,
                                 own |-> ci.own,
                                 pedigree |-> ci.pedigree,
                                 a |-> [a EXCEPT !.max_matings = IF @ < 0 THEN 500 ELSE @],
                                 matings |-> ci.matings,
                                 bull_portfolio |-> ci.bull_portfolio,
                                 cow_portfolio |-> ci.cow_portfolio,
                                 inbr |-> ci.inbr,
                                 next_id |-> get_next_id(ci.P, Lists(sim[other(who)])),
                                 new_cows |-> <<>>, new_bulls |-> <<>>,
                                 herd |-> 1, cow |-> 1, b_mat |-> <<>>, alloc |-> <<>>]
                    /\ sim' = [sim EXCEPT ![who] =
                                  [ci.P EXCEPT !.cows = [i \in 1..Len(@) |-> [@[i] EXCEPT !.bred = 0]]]]
                    /\ pc' = "herd"
                    /\ UNCHANGED ret
    /\ UNCHANGED call

\* The start of the pass for one herd: the value matrix, row by row in the order
\* of the portfolio, and then the sort of the portfolio on the ids of the bulls.
PryceMatrix ==
    /\ pc = "herd"
    /\ frame.herd <= Len(frame.bull_portfolio)
    /\ LET h == frame.herd
           a == frame.a
           P == sim[frame.who]
           bp == frame.bull_portfolio[h]
           cp == frame.cow_portfolio[h]
           b_mat == [i \in 1..Len(bp) |-> [k \in 1..Len(cp) |->
                        b_mat_cell(P.bulls[bp[i]], P.cows[cp[k]], a.recessives,
                                   frame.inbr[<<P.bulls[bp[i]].animal, P.cows[cp[k]].animal>>],
                                   a.flambda, a.penalty, a.carrier_penalty)]]
           sorted == StableSort(bp, [i \in 1..Len(bp) |-> P.bulls[bp[i]].animal])
       IN /\ frame' = [frame EXCEPT !.b_mat = b_mat, !.bull_portfolio[h] = sorted, !.cow = 1,
                                    !.herd = IF cp = <<>> THEN h + 1 ELSE h]
          /\ pc' = IF cp = <<>> THEN "herd" ELSE "cow"
    /\ UNCHANGED <<call, ret, sim>>

\* The row of the bull mated to a cow: the rows are taken from the largest value
\* of her column down, and the first whose bull, read from the portfolio at that
\* row, has matings left and is alive is used.  0 when there is none.
pick_row(order, portfolio, bulls, matings, a) ==
    LET ok(bidx) == LET b == bulls[portfolio[order[bidx]]]
                    IN /\ ~at_capacity(matings, b.animal, a.max_matings, a.bull_deficit)
                       /\ b.alive = "A"
        oks == {bidx \in 1..Len(order) : ok(bidx)}
    IN IF oks = {} THEN 0 ELSE order[Max(oks)]

\* For the history of the allocation: the bulls of the portfolio that are alive
\* and have matings left, and among them those whose own cell in the column of
\* the cow is the largest.
allocation_entry(h, c, sire, portfolio, bulls, f) ==
    LET a == f.a
        cell(i) == b_mat_cell(bulls[i], c, a.recessives, f.inbr[<<bulls[i].animal, c.animal>>],
                              a.flambda, a.penalty, a.carrier_penalty)
        free == {i \in Range(portfolio) :
                    /\ ~at_capacity(f.matings, bulls[i].animal, a.max_matings, a.bull_deficit)
                    /\ bulls[i].alive = "A"}
    IN [herd |-> h, cow |-> c.animal, sire |-> sire.animal,
        best |-> {bulls[i].animal : i \in {j \in free : \A x \in free : cell(x) <= cell(j)}}]

\* One pass of the loop over the cows of a herd: the cow is mated to the bull
\* picked, her calf is created, and she is marked as bred.
PryceMateCow ==
    /\ pc = "cow"
    /\ LET h == frame.herd
           k == frame.cow
           a == frame.a
           P == sim[frame.who]
           bp == frame.bull_portfolio[h]
           cp == frame.cow_portfolio[h]
           c == P.cows[cp[k]]
           last == (k = Len(cp))
           next(f) == [f EXCEPT !.cow = IF last THEN 1 ELSE k + 1,
                                !.herd = IF last THEN h + 1 ELSE h]
       IN \E order \in ArgSorts([i \in 1..Len(bp) |-> frame.b_mat[i][k]]) :
            LET row == pick_row(order, bp, P.bulls, frame.matings, a)
            IN IF row = 0 THEN
                   /\ frame' = next(frame)
                   /\ pc' = IF last THEN "herd" ELSE "cow"
                   /\ UNCHANGED sim
               ELSE
                   LET sire == P.bulls[bp[row]]
                   IN \E res \in create_new_calf(sire, c, a.recessives, frame.next_id, sim.generation, a.calf_loss, a.dehorning_loss, a.harvest_beef, a.debug) :
                        IF res.at # "returned" THEN
                            /\ pc' = "aborted"
                            /\ UNCHANGED <<frame, sim>>
                        ELSE
                            LET calf == [res.calf EXCEPT
                                            !.inbreeding = frame.inbr[<<sire.animal, c.animal>>]]
                            IN /\ frame' = next([frame EXCEPT
                                      !.matings[sire.animal] = @ + 1,
                                      !.new_cows = IF calf.sex = "F" THEN Append(@, calf) ELSE @,
                                      !.new_bulls = IF calf.sex = "F" THEN @ ELSE Append(@, calf),
                                      !.next_id = @ + 1,
                                      !.alloc = Append(@, allocation_entry(h, c, sire, bp, P.bulls, frame))])
                               /\ sim' = [sim EXCEPT ![frame.who].cows[cp[k]].bred = 1,
                                                     !.created = Append(@, frame.next_id)]
                               /\ pc' = IF last THEN "herd" ELSE "cow"
    /\ UNCHANGED <<call, ret>>

(***************************************************************************)
(* edit_genes                                                              *)
(***************************************************************************)
\* The largest count of trials followed when the trials are repeated until one
\* succeeds.
MaxTrials == 2

\* fail_rate[edit_mode][edit_type] and death_rate[edit_mode][edit_type], in percent.
fail_rate(edit_mode, edit_type) ==
    IF edit_type = "P" THEN 0
    ELSE IF edit_mode = "D"
        THEN (IF edit_type = "Z" THEN 45 ELSE IF edit_type = "T" THEN 40 ELSE 19)
        ELSE (IF edit_type = "Z" THEN 89 ELSE IF edit_type = "T" THEN 79 ELSE 37)

death_rate(edit_mode, edit_type) ==
    IF edit_type = "P" THEN 0
    ELSE IF edit_mode = "D"
        THEN (IF edit_type = "Z" THEN 46 ELSE IF edit_type = "T" THEN 44 ELSE 39)
        ELSE (IF edit_type = "Z" THEN 92 ELSE IF edit_type = "T" THEN 88 ELSE 79)

\* The trial that can be the first success among `trials` draws that fail with
\* probability `rate`.
first_success(rate, trials) == IF rate = 0 THEN {1} ELSE 1..trials

\* The test of the genotype of the clone at a locus: only Aa (0) and aa (-1) are
\* edited.
needs_edit_always(genotype) == TRUE

needs_edit(genotype) == genotype \in {0, -1}

\* The edit of locus r of a clone; st.rv is the locus the loop variable rv holds,
\* st.stop says that the loop over the loci was left by break, and st.trials is,
\* as a history, the number of edit trials run at each locus.
edit_locus(st, r, recessives, edit_type, edit_trials) ==
    LET fr == fail_rate(recessives[r].edit_mode, edit_type)
        edited(k) == [st EXCEPT !.ed.genotypes[r] = 1, !.ed.edit_status[r] = 1,
                                !.ed.edit_count[r] = k, !.rv = r, !.trials[r] = k]
    IN IF needs_edit(st.ed.genotypes[r]) THEN
           IF edit_trials > 0 THEN
               {[edited(k) EXCEPT !.stop = TRUE] : k \in first_success(fr, edit_trials)}
                   \cup (IF fr > 0 THEN {[st EXCEPT !.rv = r, !.trials[r] = edit_trials]} ELSE {})
           ELSE {edited(k) : k \in first_success(fr, MaxTrials)}
       ELSE {[st EXCEPT !.rv = r]}

RECURSIVE edit_loci(_, _, _, _, _)
edit_loci(S, r, recessives, edit_type, edit_trials) ==
    IF r > Len(recessives) THEN S
    ELSE edit_loci(UNION {IF st.stop THEN {st}
                          ELSE edit_locus(st, r, recessives, edit_type, edit_trials) : st \in S},
                   r + 1, recessives, edit_type, edit_trials)

\* The embryo transfer of an edited clone.  The count of transfers replaces the
\* list et_count of the record; it is kept here as a list of one number.
embryo_transfer(st, recessives, edit_type, embryo_trials, generation) ==
    LET dr == death_rate(recessives[st.rv].edit_mode, edit_type)
        carried(k) == [ed |-> [st.ed EXCEPT !.et_count = <<k>>], dead |-> FALSE,
                       trials |-> st.trials]
        lost == [ed |-> [st.ed EXCEPT !.alive = "D", !.reason = "G", !.died = generation],
                 dead |-> TRUE, trials |-> st.trials]
    IN IF embryo_trials > 0
          THEN {carried(k) : k \in first_success(dr, embryo_trials)}
                   \cup (IF dr > 0 THEN {lost} ELSE {})
          ELSE {carried(k) : k \in first_success(dr, MaxTrials)}

\* The clone of one animal: a copy with a new id, edited and transferred, and then
\* marked with reason 'G' and the generation whatever the transfer gave.  orig is
\* the record that was copied.
clone_animal(animal, next_id, recessives, generation, edit_type, edit_trials, embryo_trials) ==
    LET ed_animal == [animal EXCEPT !.animal = next_id, !.born = generation]
        edits == edit_loci({[ed |-> ed_animal, rv |-> 1, stop |-> FALSE,
                             trials |-> [r \in 1..Len(recessives) |-> 0]]}, 1, recessives,
                           edit_type, edit_trials)
        born == UNION {embryo_transfer(st, recessives, edit_type, embryo_trials, generation)
                       : st \in edits}
    IN {[x EXCEPT !.ed.reason = "G", !.ed.died = generation] @@ [orig |-> animal] : x \in born}

\* The loop over the animals to edit: S holds the lists of clones made so far.
RECURSIVE clone_loop(_, _, _, _, _, _, _)
clone_loop(S, i, n_edit, animals, next_id, generation, e) ==
    IF i > n_edit THEN S
    ELSE clone_loop(
            UNION {{Append(clones, x)
                    : x \in clone_animal(animals[i], next_id + i - 1, e.recessives, generation,
                                         e.edit_type, e.edit_trials, e.embryo_trials)}
                   : clones \in S},
            i + 1, n_edit, animals, next_id, generation, e)

\* The clone is a deep copy: appending it leaves the records of the list alone.
\* Without the copy the clone would be the record of the list itself.
add_clones_aliased(animals, clones) ==
    [i \in 1..Len(animals) |-> IF i <= Len(clones) THEN clones[i] ELSE animals[i]] \o clones

add_clones(animals, clones) == animals \o clones

edit_genes(P, extras, recessives, generation, edit_prop, edit_type, edit_trials, embryo_trials, edit_sex) ==
    IF edit_prop < 0 \/ edit_prop > 100
       THEN {[P |-> P, created |-> <<>>, at |-> "NameError", clones |-> <<>>]}
    ELSE
        LET e == [recessives |-> recessives,
                  edit_type |-> IF edit_type \in {"Z", "T", "C", "P"} THEN edit_type ELSE "C",
                  edit_trials |-> IF edit_trials = 0 THEN 1 ELSE edit_trials,
                  embryo_trials |-> IF embryo_trials = 0 THEN 1 ELSE embryo_trials]
            animals == IF edit_sex = "M" THEN P.bulls ELSE P.cows
            next_id == get_next_id(P, extras)
            n_edit == ((Len(animals) * edit_prop + 5) \div 10) \div 10
            by_tbv == IF n_edit > 0
                         THEN StableSort(animals, [i \in 1..Len(animals) |-> 0 - animals[i].tbv])
                         ELSE animals
            by_id(l) == StableSort(l, [i \in 1..Len(l) |-> l[i].animal])
            eds(clones) == [i \in 1..Len(clones) |-> clones[i].ed]
            lost(clones) == eds(SelectSeq(clones, LAMBDA x : x.dead))
        IN {[P |-> IF edit_sex = "M"
                      THEN [P EXCEPT !.bulls = by_id(add_clones(by_tbv, eds(clones))),
                                     !.dead_bulls = @ \o lost(clones)]
                      ELSE [P EXCEPT !.cows = by_id(add_clones(by_tbv, eds(clones))),
                                     !.dead_cows = @ \o lost(clones)],
             created |-> [i \in 1..Len(clones) |-> clones[i].ed.animal],
             at |-> "returned",
             clones |-> clones]
            : clones \in clone_loop({<<>>}, 1, n_edit, by_tbv, next_id, generation, e)}

\* The end of pryce_mating: the calves go to the live or the dead lists by their
\* status, and then the bulls and the cows are edited when a locus is flagged for
\* editing and the proportion to edit is positive.
PryceFinish ==
    /\ pc = "herd"
    /\ frame.herd > Len(frame.bull_portfolio)
    /\ LET who == frame.who
           a == frame.a
           extras == Lists(sim[other(who)])
           live(l) == SelectSeq(l, LAMBDA x : x.alive = "A")
           dead(l) == SelectSeq(l, LAMBDA x : x.alive # "A")
           P == [cows |-> sim[who].cows \o live(frame.new_cows),
                 dead_cows |-> sim[who].dead_cows \o dead(frame.new_cows),
                 bulls |-> sim[who].bulls \o live(frame.new_bulls),
                 dead_bulls |-> sim[who].dead_bulls \o dead(frame.new_bulls)]
           edit == \E r \in 1..Len(a.recessives) : a.recessives[r].edit = 1
           skip(Q) == {[P |-> Q, created |-> <<>>, at |-> "returned"]}
           males == IF edit /\ a.edit_prop[1] > 0
                       THEN edit_genes(P, extras, a.recessives, sim.generation, a.edit_prop[1], a.edit_type, a.edit_trials, a.embryo_trials, "M")
                       ELSE skip(P)
           females(Q) == IF edit /\ a.edit_prop[2] > 0
                            THEN edit_genes(Q, extras, a.recessives, sim.generation, a.edit_prop[2], a.edit_type, a.edit_trials, a.embryo_trials, "F")
                            ELSE skip(Q)
       IN \E m \in males :
            IF m.at # "returned" THEN
                /\ pc' = "aborted"
                /\ sim' = [sim EXCEPT ![who] = P]
            ELSE \E f \in females(m.P) :
                /\ pc' = IF f.at # "returned" THEN "aborted" ELSE "mated"
                /\ sim' = [sim EXCEPT ![who] = f.P, !.created = @ \o m.created \o f.created]
    /\ UNCHANGED <<call, ret, frame>>

(***************************************************************************)
(* cull_bulls, cull_cows and move_nucleus_bulls_to_multiplier.             *)
(***************************************************************************)
culled(animal, reason, generation) ==
    [animal EXCEPT !.alive = "D", !.reason = reason, !.died = generation]

\* The age cull of both routines: the old animals are marked and appended to the
\* dead list, and the live list keeps the records whose status is 'A'.
age_cull(animals, dead, generation, max_age) ==
    LET old(a) == generation - a.born > max_age
        marked == [i \in 1..Len(animals) |->
                      IF old(animals[i]) THEN culled(animals[i], "A", generation) ELSE animals[i]]
    IN [live |-> SelectSeq(marked, LAMBDA a : a.alive = "A"),
        dead |-> dead \o SelectSeq(marked, old)]

\* bulls.sort(key=tbv): the bulls in ascending order of TBV.  The other order
\* would put the best bulls first.
by_tbv_descending(bulls) == StableSort(bulls, [i \in 1..Len(bulls) |-> 0 - bulls[i].tbv])

by_tbv_ascending(bulls) == StableSort(bulls, [i \in 1..Len(bulls) |-> bulls[i].tbv])

\* aged is, as a history, the list of live bulls after the age cull.
cull_bulls(bulls, dead_bulls, generation, max_bulls, max_bull_age) ==
    LET cap == IF max_bulls <= 0 THEN 250 ELSE max_bulls
        aged == age_cull(bulls, dead_bulls, generation, max_bull_age)
        by_tbv == by_tbv_ascending(aged.live)
        n == Len(aged.live) - cap
    IN IF Len(aged.live) <= cap
          THEN [bulls |-> aged.live, dead_bulls |-> aged.dead, aged |-> aged.live]
          ELSE [bulls |-> SubSeq(by_tbv, n + 1, Len(by_tbv)),
                dead_bulls |-> aged.dead \o [i \in 1..n |-> culled(by_tbv[i], "N", generation)],
                aged |-> aged.live]

\* The trimming of the herds herd..base_herds-1 of the shuffled list cows: the
\* positions culled and, in the order of their culling, the copies for the dead list.
RECURSIVE herd_culls(_, _, _, _, _)
herd_culls(cows, herd, base_herds, max_herd_size, generation) ==
    IF herd >= base_herds THEN [at |-> {}, dead |-> <<>>]
    ELSE LET herd_cows == SelectSeq([i \in 1..Len(cows) |-> i], LAMBDA i : cows[i].herd = herd)
             herd_diff == Len(herd_cows) - max_herd_size
             cull_herd == IF herd_diff > 0 THEN Range(SubSeq(herd_cows, 1, herd_diff)) ELSE {}
             hit == SelectSeq([i \in 1..Len(cows) |-> i],
                              LAMBDA i : \E j \in cull_herd : cows[j] = cows[i])
             rest == herd_culls(cows, herd + 1, base_herds, max_herd_size, generation)
         IN [at |-> Range(hit) \cup rest.at,
             dead |-> [k \in 1..Len(hit) |-> culled(cows[hit[k]], "N", generation)] \o rest.dead]

\* The size that the herds are trimmed to: the cows, or the cap when the cows
\* are at least as many, shared out among the herds.
max_herd_size_of_cap(n, max_cows, base_herds) == max_cows \div base_herds

max_herd_size(n, max_cows, base_herds) ==
    IF n < max_cows THEN n \div base_herds ELSE max_cows \div base_herds

\* pre is, as a history, the list of live cows before the cull on number.
cull_cows(cows, dead_cows, generation, base_herds, max_cows, max_cow_age, culling_rate) ==
    LET cap == IF max_cows < 0 THEN 0 ELSE max_cows
        aged == age_cull(cows, dead_cows, generation, max_cow_age)
        n == Len(aged.live)
        draws == IF culling_rate > 0 THEN [1..n -> Bern(culling_rate)] ELSE {[i \in 1..n |-> FALSE]}
    IN UNION {
        LET keep == SelectSeq([i \in 1..n |-> i], LAMBDA i : ~d[i])
            gone == SelectSeq([i \in 1..n |-> i], LAMBDA i : d[i])
            live == [k \in 1..Len(keep) |-> aged.live[keep[k]]]
            dead == aged.dead \o [k \in 1..Len(gone) |-> culled(aged.live[gone[k]], "I", generation)]
        IN {IF cap = 0 THEN [cows |-> sh, dead_cows |-> dead, pre |-> sh]
            ELSE LET trim == herd_culls(sh, 0, base_herds,
                                        max_herd_size(Len(sh), cap, base_herds), generation)
                     stay == SelectSeq([i \in 1..Len(sh) |-> i], LAMBDA i : i \notin trim.at)
                 IN [cows |-> [k \in 1..Len(stay) |-> sh[stay[k]]],
                     dead_cows |-> dead \o trim.dead, pre |-> sh]
            : sh \in Shuffles(live)}
        : d \in draws}

\* The order in which the yearlings are taken for the move: ascending on TBV,
\* or, for the criterion 'polled', ascending on the pair (genotypes, TBV), the
\* lists of genotypes compared locus by locus.
move_order_descending(move_list, bull_criterion) ==
    StableSort(move_list, [i \in 1..Len(move_list) |-> 0 - move_list[i].tbv])

move_order(move_list, bull_criterion) ==
    LET by_tbv == StableSort(move_list, [i \in 1..Len(move_list) |-> move_list[i].tbv])
        rank[g \in Seq(Genotypes)] == IF g = <<>> THEN 0
                                      ELSE 3 * rank[SubSeq(g, 1, Len(g) - 1)] + g[Len(g)] + 1
    IN IF bull_criterion = "polled"
          THEN StableSort(by_tbv, [i \in 1..Len(by_tbv) |-> rank[by_tbv[i].genotypes]])
          ELSE by_tbv

\* The yearling bulls of the nucleus, but for the last of them in that order
\* (at least one is kept), go to the herds of the multiplier bulls, in a random
\* order.  The argument nucleus_bulls_to_move is read by the messages only.
move_nucleus_bulls_to_multiplier(bulls, nucleus_bulls, generation, bull_criterion, move_age) ==
    LET herd_list == get_unique_herd_list(bulls)
        move_list == SelectSeq(nucleus_bulls, LAMBDA nb : generation - nb.born = move_age)
        kept == (5 * Len(move_list)) \div 100
        to_keep == IF kept = 0 THEN 1 ELSE kept
        to_move == IF Len(move_list) - to_keep < 0 THEN 0 ELSE Len(move_list) - to_keep
    IN IF herd_list = <<>> THEN {[bulls |-> bulls, nucleus_bulls |-> nucleus_bulls, at |-> "ZeroDivisionError"]}
       ELSE LET move_per_herd == to_move \div Len(herd_list)
                even_move == move_per_herd * Len(herd_list)
                by_tbv == move_order(move_list, bull_criterion)
                popped(i) == IF i <= even_move
                                THEN herd_list[Len(herd_list) - ((i - 1) \div move_per_herd)]
                                ELSE herd_list[Len(herd_list) - (i - 1 - even_move)]
            IN {LET moved == [i \in 1..Len(sh) |-> [sh[i] EXCEPT !.herd = popped(i)]]
                IN [bulls |-> bulls \o moved,
                    nucleus_bulls |-> SelectSeq(nucleus_bulls,
                                          LAMBDA b : /\ b \notin Range(sh)
                                                     /\ b \notin Range(moved)),
                    at |-> "returned"]
                : sh \in Shuffles(Take(by_tbv, to_move))}

\* float(a) / float(b) for counts a and b > 0: the quotient, kept exact as a
\* fraction in lowest terms.
RECURSIVE gcd(_, _)
gcd(a, b) == IF b = 0 THEN a ELSE gcd(b, a % b)

quotient(a, b) == [num |-> a \div gcd(a, b), den |-> b \div gcd(a, b)]

\* The copies of the minor allele at locus r: one for each Aa, two for each aa.
minor_allele_counts_carriers(animals, r) ==
    Cardinality({i \in 1..Len(animals) : animals[i].genotypes[r] \in {0, -1}})

minor_allele_counts(animals, r) ==
    Cardinality({i \in 1..Len(animals) : animals[i].genotypes[r] = 0})
        + 2 * Cardinality({i \in 1..Len(animals) : animals[i].genotypes[r] = -1})

\* update_maf: the frequency of the minor allele of each locus among the live
\* animals; it divides by the number of alleles and, for a lethal, by 1 - q^2.
\* freq is in percent, r_freq is the exact quotient, which becomes the
\* frequency of the locus and the entry of the generation in the history.
update_maf(cows, bulls, recessives) ==
    LET animals == cows \o bulls
        minor(r) == minor_allele_counts(animals, r)
        total_alleles == 2 * Len(animals)
        fails == \/ total_alleles = 0
                 \/ \E r \in 1..Len(recessives) :
                        recessives[r].lethal = 1 /\ minor(r) = total_alleles
    IN IF fails THEN [at |-> "ZeroDivisionError", freq |-> <<>>, r_freq |-> <<>>,
                      recessives |-> recessives]
       ELSE LET r_freq == [r \in 1..Len(recessives) |-> quotient(minor(r), total_alleles)]
            IN [at |-> "returned",
                freq |-> [r \in 1..Len(recessives) |-> (100 * minor(r)) \div total_alleles],
                r_freq |-> r_freq,
                recessives |-> [r \in 1..Len(recessives) |->
                                   [recessives[r] EXCEPT !.frequency = r_freq[r]]]]

(***************************************************************************)
(* One call of pryce_mating for the main population of a run.              *)
(***************************************************************************)
\* Founders as create_base_population makes them: cows 1..n, then the bulls, all
\* with unknown parents and, the bulls too, with sex 'F'.
Founder(id, born, herd, tbv, gt) == Animal(id, 0, 0, born, "F", herd, tbv, gt)

PryceScenarios == {"pryce", "pryce_r"}
PryceMaxMatings == {-1, 0, 1}
PryceDeficits == {"use_horned", "no_limit"}
PryceServiceBulls == {1, 2}
PryceHerds == {1, 2}

\* The arguments of run_scenario that matter to a call of pryce_mating.
PryceCall(sc, mm, bd, sb, bh, bu) ==
    [scenario |-> sc, recessives |-> <<Horned>>, nucleus_recessives |-> <<Horned>>,
     max_matings |-> mm, nucleus_max_matings |-> mm, base_herds |-> bh,
     nucleus_base_herds |-> bh, service_bulls |-> sb, nucleus_service_bulls |-> sb,
     calf_loss |-> 0, nucleus_calf_loss |-> 0, dehorning_loss |-> 0,
     nucleus_dehorning_loss |-> 0, harvest_beef |-> 0, nucleus_harvest_beef |-> 0,
     edit_prop |-> <<0, 0>>, edit_type |-> "C", edit_trials |-> 1, embryo_trials |-> 1,
     flambda |-> 1, bull_deficit |-> bd, carrier_penalty |-> TRUE, bull_unique |-> bu,
     debug |-> FALSE, bull_mating_age |-> 1, cow_mating_age |-> 1, use_nucleus |-> FALSE,
     bull_criterion |-> "random", bull_copies |-> 4,
     filetag |-> "_test32", nucleus_filetag |-> "_nuc_test32"]

\* The true breeding values of the two founder bulls, in the order of their ids.
PryceBullValues == {<<1, 3>>, <<3, 1>>, <<2, 2>>}

PryceInit ==
    /\ pc = "pryce_mating"
    /\ ret = <<>>
    /\ frame = [who |-> "main"]
    /\ \E sc \in PryceScenarios, mm \in PryceMaxMatings, bd \in PryceDeficits,
          sb \in PryceServiceBulls, bh \in PryceHerds, bu \in BOOLEAN, bma \in {1, 3},
          ft \in {"", "_test32"} :
         /\ ft = "" => (sc = "pryce" /\ bma = 1)
         /\ call = [PryceCall(sc, mm, bd, sb, bh, bu) EXCEPT !.bull_mating_age = bma, !.filetag = ft]
    /\ \E hs \in [1..2 -> 0..(call.base_herds - 1)], t \in PryceBullValues, g \in {0, 1} :
         sim = [generation |-> 1,
                main |-> Population(
                    [i \in 1..2 |-> Founder(i, 0, hs[i], i, <<1>>)],
                    [i \in 1..2 |-> Founder(2 + i, 0 - i, 0, t[i], <<IF i = 1 THEN g ELSE 1>>)],
                    <<>>, <<>>),
                nucleus |-> Population(<<>>, <<>>, <<>>, <<>>),
                created |-> [i \in 1..4 |-> i]]

PryceNext == PryceBegin \/ PryceMatrix \/ PryceMateCow \/ PryceFinish
SpecPryce == PryceInit /\ [][PryceNext]_vars

(***************************************************************************)
(* run_scenario: the founders and the loop over the generations.           *)
(***************************************************************************)
NoAnimals == Population(<<>>, <<>>, <<>>, <<>>)

\* What is drawn at random for the founders: the true breeding values and the
\* genotypes.
FounderValues == {1}
FounderGenotypes == {<<-1>>}

\* create_base_population: the cows get the ids after the offset, the bulls the
\* ids after the cows; for a nucleus the offset is the next id of the run.
create_base_population(base_cows, base_bulls, base_herds, base_max_cow_age, base_max_bull_age, use_nucleus, extras) ==
    LET id_offset == IF use_nucleus THEN get_next_id(NoAnimals, extras) ELSE 0
    IN {Population(
            [i \in 1..base_cows |-> Founder(i + id_offset, 0 - cb[i], ch[i], 1, cg)],
            [i \in 1..base_bulls |-> Founder(i + base_cows + id_offset, 0 - bb[i], bh[i], bt[i], bg)],
            <<>>, <<>>)
        : cb \in [1..base_cows -> 0..(base_max_cow_age - 1)],
          ch \in [1..base_cows -> 0..(base_herds - 1)],
          bb \in [1..base_bulls -> 0..(base_max_bull_age - 1)],
          bh \in [1..base_bulls -> 0..(base_herds - 1)],
          bt \in [1..base_bulls -> FounderValues],
          cg \in {<<-1>>}, bg \in FounderGenotypes}

\* The number of generations of a run.
Gens == 2

\* The default of the argument max_bull_age of cull_bulls, which run_scenario
\* does not pass.
DefaultMaxBullAge == 3

RunScenarios == {"random", "truncation", "pryce", "pryce_r"}
RunEditProps == {<<0, 0>>, <<0, 50>>}

\* The arguments of a run.
RunCall(sc, un, ep) ==
    [PryceCall(sc, 1, "use_horned", 2, 1, FALSE) EXCEPT !.use_nucleus = un, !.edit_prop = ep]
        @@ [gens |-> Gens, base_cows |-> 1, base_bulls |-> 1, nucleus_base_cows |-> 1,
            nucleus_base_bulls |-> 2, base_max_cow_age |-> 1, base_max_bull_age |-> 1,
            nucleus_base_max_cow_age |-> 1, nucleus_base_max_bull_age |-> 1,
            max_bulls |-> 1, nucleus_max_bulls |-> 1, max_cows |-> 1, nucleus_max_cows |-> 1,
            max_cow_age |-> 0, nucleus_max_cow_age |-> 0, culling_rate |-> 0,
            max_bull_age |-> 1, nucleus_max_bull_age |-> 1]

Init ==
    /\ pc = "start"
    /\ ret = <<>>
    /\ frame = <<>>
    /\ \E sc \in RunScenarios, un \in BOOLEAN, ep \in RunEditProps : call = RunCall(sc, un, ep)
    /\ sim = [generation |-> 0, main |-> NoAnimals, nucleus |-> NoAnimals, created |-> <<>>,
              maf |-> [main |-> <<>>, nucleus |-> <<>>],
              freq_hist |-> [main |-> <<>>, nucleus |-> <<>>]]

ids_of(P) == [i \in 1..Len(P.cows) |-> P.cows[i].animal] \o [i \in 1..Len(P.bulls) |-> P.bulls[i].animal]

\* The set-up of run_scenario: the founders of the main population, then those
\* of the nucleus, and the allele frequencies of the founder generations: the
\* history gets an entry for each g of xrange(-9, 1, 1), the one of generation
\* 0 replacing the entry create_base_population made from the parameters.
CreateBasePopulation ==
    /\ pc = "start"
    /\ \E m \in create_base_population(call.base_cows, call.base_bulls, call.base_herds, call.base_max_cow_age, call.base_max_bull_age, FALSE, <<>>) :
         \E n \in (IF call.use_nucleus
                      THEN create_base_population(call.nucleus_base_cows, call.nucleus_base_bulls, call.nucleus_base_herds, call.nucleus_base_max_cow_age, call.nucleus_base_max_bull_age, TRUE, Lists(m))
                      ELSE {NoAnimals}) :
            LET maf == update_maf(m.cows, m.bulls, call.recessives)
                nucleus_maf == IF call.use_nucleus
                                  THEN update_maf(n.cows, n.bulls, call.nucleus_recessives)
                                  ELSE [at |-> "returned", freq |-> <<>>]
                failed == maf.at # "returned" \/ nucleus_maf.at # "returned"
            IN /\ sim' = [generation |-> 1, main |-> m, nucleus |-> n,
                          created |-> ids_of(m) \o ids_of(n),
                          maf |-> [main |-> maf.freq, nucleus |-> nucleus_maf.freq],
                          freq_hist |-> [main |-> [g \in -9..0 |-> maf.freq],
                                         nucleus |-> IF call.use_nucleus
                                                        THEN [g \in -9..0 |-> nucleus_maf.freq]
                                                        ELSE <<>>]]
               /\ pc' = IF failed THEN "aborted" ELSE "mate"
    /\ frame' = [who |-> "main"]
    /\ UNCHANGED <<call, ret>>

\* The mating of a generation starts with the main population.  random_mating
\* reads the undefined name args and truncation_mating the undefined name cow (or,
\* without a live cow, compute_inbreeding fails on its undefined names).
Mate ==
    /\ pc = "mate"
    /\ pc' = IF call.scenario \in {"pryce", "pryce_r", "polled", "polled_r"}
                THEN "pryce_mating" ELSE "aborted"
    /\ frame' = [who |-> "main"]
    /\ UNCHANGED <<call, ret, sim>>

\* After the main population the nucleus is mated; the call for the nucleus of
\* scenario 'pryce_r' reads the undefined name nuclues_base_herds.
MateNucleus ==
    /\ pc = "mated"
    /\ IF frame.who = "main" /\ call.use_nucleus
          THEN /\ pc' = IF call.scenario = "pryce_r" THEN "aborted" ELSE "pryce_mating"
               /\ frame' = [who |-> "nucleus"]
          ELSE /\ pc' = "move"
               /\ frame' = [who |-> "main"]
    /\ UNCHANGED <<call, ret, sim>>

MoveNucleusBulls ==
    /\ pc = "move"
    /\ IF call.use_nucleus
          THEN \E r \in move_nucleus_bulls_to_multiplier(sim.main.bulls, sim.nucleus.bulls, sim.generation, call.bull_criterion, 1) :
                 /\ sim' = [sim EXCEPT !.main.bulls = r.bulls, !.nucleus.bulls = r.nucleus_bulls]
                 /\ pc' = IF r.at = "returned" THEN "cull_bulls" ELSE "aborted"
          ELSE /\ pc' = "cull_bulls"
               /\ UNCHANGED sim
    /\ UNCHANGED <<call, ret, frame>>

CullBulls ==
    /\ pc = "cull_bulls"
    /\ LET m == cull_bulls(sim.main.bulls, sim.main.dead_bulls, sim.generation, call.max_bulls, DefaultMaxBullAge)
           n == cull_bulls(sim.nucleus.bulls, sim.nucleus.dead_bulls, sim.generation, call.nucleus_max_bulls, DefaultMaxBullAge)
       IN sim' = [sim EXCEPT !.main.bulls = m.bulls, !.main.dead_bulls = m.dead_bulls,
                             !.nucleus.bulls = IF call.use_nucleus THEN n.bulls ELSE @,
                             !.nucleus.dead_bulls = IF call.use_nucleus THEN n.dead_bulls ELSE @]
    /\ pc' = "count"
    /\ UNCHANGED <<call, ret, frame>>

\* The count of the bred and the open cows marks the cows too young to be mated.
\* Every record of the list cows is counted, in one of the three counters.
CountBredCows ==
    /\ pc = "count"
    /\ LET young(c) == sim.generation - c.born < call.cow_mating_age
           mark(cows) == [i \in 1..Len(cows) |->
                             IF young(cows[i]) THEN [cows[i] EXCEPT !.bred = 3] ELSE cows[i]]
           cows == sim.main.cows
       IN /\ sim' = [sim EXCEPT !.main.cows = mark(@),
                                !.nucleus.cows = IF call.use_nucleus THEN mark(@) ELSE @]
          /\ frame' = [who |-> "main",
                       replacements |-> Len(SelectSeq(cows, young)),
                       bred_cows |-> Len(SelectSeq(cows, LAMBDA c : ~young(c) /\ c.bred = 1)),
                       open_cows |-> Len(SelectSeq(cows, LAMBDA c : ~young(c) /\ c.bred # 1))]
    /\ pc' = "cull_cows"
    /\ UNCHANGED <<call, ret>>

CullCows ==
    /\ pc = "cull_cows"
    /\ \E m \in cull_cows(sim.main.cows, sim.main.dead_cows, sim.generation, call.base_herds, call.max_cows, call.max_cow_age, call.culling_rate) :
         \E n \in (IF call.use_nucleus
                      THEN cull_cows(sim.nucleus.cows, sim.nucleus.dead_cows, sim.generation, call.nucleus_base_herds, call.nucleus_max_cows, call.nucleus_max_cow_age, call.culling_rate)
                      ELSE {[cows |-> sim.nucleus.cows, dead_cows |-> sim.nucleus.dead_cows]}) :
            sim' = [sim EXCEPT !.main.cows = m.cows, !.main.dead_cows = m.dead_cows,
                               !.nucleus.cows = n.cows, !.nucleus.dead_cows = n.dead_cows]
    /\ pc' = "maf"
    /\ UNCHANGED <<call, ret, frame>>

\* The end of a generation: the allele frequencies, and the next generation.
EndGeneration ==
    /\ pc = "maf"
    /\ LET maf == update_maf(sim.main.cows, sim.main.bulls, call.recessives)
           nucleus_maf == IF call.use_nucleus
                             THEN update_maf(sim.nucleus.cows, sim.nucleus.bulls, call.nucleus_recessives)
                             ELSE [at |-> "returned", freq |-> sim.maf.nucleus]
       IN IF maf.at # "returned" \/ nucleus_maf.at # "returned"
             THEN /\ pc' = "aborted"
                  /\ UNCHANGED sim
             ELSE /\ pc' = IF sim.generation < call.gens THEN "mate" ELSE "done"
                  /\ sim' = [sim EXCEPT !.maf = [main |-> maf.freq, nucleus |-> nucleus_maf.freq],
                                        !.freq_hist.main = (sim.generation :> maf.freq) @@ @,
                                        !.freq_hist.nucleus = IF call.use_nucleus
                                                                 THEN (sim.generation :> nucleus_maf.freq) @@ @
                                                                 ELSE @,
                                        !.generation = IF @ < call.gens THEN @ + 1 ELSE @]
    /\ UNCHANGED <<call, ret, frame>>

Next ==
    \/ CreateBasePopulation
    \/ Mate
    \/ PryceBegin
    \/ PryceMatrix
    \/ PryceMateCow
    \/ PryceFinish
    \/ MateNucleus
    \/ MoveNucleusBulls
    \/ CullBulls
    \/ CountBredCows
    \/ CullCows
    \/ EndGeneration

Spec == Init /\ [][Next]_vars

(***************************************************************************)
(* Properties of the allocation of pryce_mating (checked under SpecPryce). *)
(***************************************************************************)
\* The calves of this call, live or dead, that have the bull `id` as sire.
calves_sired(id) ==
    Cardinality({i \in 1..Len(frame.new_cows) : frame.new_cows[i].sire = id})
        + Cardinality({i \in 1..Len(frame.new_bulls) : frame.new_bulls[i].sire = id})

PryceAllocating == pc \in {"herd", "cow", "mated"} /\ "alloc" \in DOMAIN frame

\* C8 as stated: summed over all herds, no bull that sires a calf sires more calves
\* than the argument max_matings, unless the deficit policy is 'no_limit'.
C8_NoBullOverMaxMatings ==
    (PryceAllocating /\ call.bull_deficit # "no_limit") =>
        \A id \in DOMAIN frame.matings :
            calves_sired(id) > 0 => calves_sired(id) <= call.max_matings

\* C8, amended: summed over all herds, no bull sires more calves than the cap in
\* effect, which is max_matings or, for a negative max_matings, 500, unless the
\* deficit policy is 'no_limit'; and the counter of a bull is the number of calves
\* it has sired.
C8_NoBullOverEffectiveCap ==
    PryceAllocating =>
        \A id \in DOMAIN frame.matings :
            /\ frame.matings[id] = calves_sired(id)
            /\ call.bull_deficit # "no_limit" =>
                  calves_sired(id) <= (IF call.max_matings < 0 THEN 500 ELSE call.max_matings)

\* C8 witness: the call is over, a bull has sired exactly max_matings >= 1 calves,
\* and a cow of a herd whose only bull it is was left open.
C8_Witness ==
    /\ pc = "mated"
    /\ call.bull_deficit # "no_limit"
    /\ call.max_matings >= 1
    /\ \E h \in 1..Len(frame.bull_portfolio) :
         /\ Len(frame.bull_portfolio[h]) = 1
         /\ calves_sired(sim.main.bulls[frame.bull_portfolio[h][1]].animal) = call.max_matings
         /\ \E k \in 1..Len(frame.cow_portfolio[h]) :
               sim.main.cows[frame.cow_portfolio[h][k]].bred = 0

\* C9: the bull recorded as sire of the calf of a cow is a live bull of the
\* portfolio of her herd with matings left whose own cell in her column of the
\* value matrix is the largest among such bulls.
C9_SireHasBestValue ==
    PryceAllocating =>
        \A i \in 1..Len(frame.alloc) : frame.alloc[i].sire \in frame.alloc[i].best

(***************************************************************************)
(* Properties of a run (checked under Spec).                               *)
(***************************************************************************)
\* The records of the live and of the dead lists of a population.
live_records(P) == Range(P.cows) \cup Range(P.bulls)
dead_records(P) == Range(P.dead_cows) \cup Range(P.dead_bulls)
all_records == live_records(sim.main) \cup dead_records(sim.main)
                  \cup live_records(sim.nucleus) \cup dead_records(sim.nucleus)

\* C1: the ids given out by the creation events of a run (founders, calves,
\* clones) are all different, every record of the live and dead lists of both
\* populations carries one of them, and two records with the same id are records
\* of the same animal (same birth, parents and sex).
C1_IdsAreUnique ==
    pc # "start" =>
        /\ \A i, j \in 1..Len(sim.created) : sim.created[i] = sim.created[j] => i = j
        /\ \A x \in all_records : x.animal \in Range(sim.created)
        /\ \A x, y \in all_records :
              x.animal = y.animal =>
                  /\ x.born = y.born /\ x.sire = y.sire /\ x.dam = y.dam /\ x.sex = y.sex

\* C1 witness: a run with a nucleus is over; its lists hold a calf born in the
\* last generation, a clone made by gene editing and, among the bulls of the main
\* population, a founder of the nucleus.
C1_Witness ==
    /\ pc = "done"
    /\ call.use_nucleus
    /\ sim.generation = call.gens
    /\ \E x \in all_records : x.born = call.gens /\ x.sire # 0 /\ x.reason # "G"
    /\ \E x \in all_records : x.reason = "G"
    /\ \E x \in Range(sim.main.bulls) \cup Range(sim.main.dead_bulls) :
          x.sire = 0 /\ x.animal > call.base_cows + call.base_bulls

\* C2: in each population no id is in a live and in a dead list at once, every
\* record of a live list has the status alive and every record of a dead list the
\* status dead.
C2_LiveXorDead ==
    \A who \in {"main", "nucleus"} :
        /\ \A x \in live_records(sim[who]) : x.alive = "A"
        /\ \A x \in dead_records(sim[who]) : x.alive = "D"
        /\ \A x \in live_records(sim[who]), y \in dead_records(sim[who]) : x.animal # y.animal

(***************************************************************************)
(* random_mating and truncation_mating.  An outcome is where the call      *)
(* stands (returned, or the exception that ended it), the lists as the     *)
(* call left them, and the calves it had made in its local lists.  Both    *)
(* functions call compute_inbreeding as their last statement, after the    *)
(* mating loop and the editing, and without proxy matings, so that it ends *)
(* at its first use of the dictionary matings, before the pedigree is      *)
(* written: in every outcome the solver has not run (solved is "none").    *)
(***************************************************************************)
MatingOutcome(at, P, calves) == [at |-> at, P |-> P, calves |-> calves, solved |-> "none"]

\* random_mating: the cap is clamped and compared with the number of cows, the
\* counters are set up, and the next id is asked for with the arguments *args,
\* a name that the function does not have.
random_mating(P, max_matings, extras) ==
    LET cap == IF max_matings <= 0 THEN 50 ELSE max_matings
        warned == cap * Len(P.bulls) < Len(P.cows)
    IN {MatingOutcome("NameError", P, <<>>) @@ [cap |-> cap, warned |-> warned]}

\* truncation_mating: pct in percent.  The bulls are sorted in place on TBV, the
\* first live cow draws a bull of the top group and a calf is made; the statement
\* after it reads the undefined name cow.  Without a live cow the loop is
\* skipped and compute_inbreeding, called without proxy matings, reads its
\* undefined dictionary matings.
truncation_mating(P, generation, recessives, pct, calf_loss, dehorning_loss, harvest_beef, extras) ==
    LET used == IF pct < 0 \/ pct > 100 THEN 10 ELSE pct
        bulls == StableSort(P.bulls, [i \in 1..Len(P.bulls) |-> P.bulls[i].tbv])
        b2k == (used * Len(bulls)) \div 100
        Q == [P EXCEPT !.bulls = bulls]
        live == {i \in 1..Len(P.cows) : P.cows[i].alive = "A"}
        c == P.cows[CHOOSE i \in live : \A j \in live : i <= j]
    IN IF id_list(Lists(Q) \o extras) = {} THEN {MatingOutcome("IndexError", Q, <<>>)}
       ELSE IF live = {} THEN {MatingOutcome("NameError", Q, <<>>)}
       ELSE IF b2k = 0 THEN {MatingOutcome("ValueError", Q, <<>>)}
       ELSE UNION {
              IF bulls[b].alive # "A" THEN {MatingOutcome("NameError", Q, <<>>)}
              ELSE {IF s.at = "returned"
                       THEN MatingOutcome("NameError", Q, <<s.calf>>)
                       ELSE MatingOutcome(s.at, Q, <<>>)
                    : s \in create_new_calf(bulls[b], c, recessives, get_next_id(Q, extras),
                                            generation, calf_loss, dehorning_loss, harvest_beef, FALSE)}
              : b \in (Len(bulls) - b2k + 1)..Len(bulls)}

(***************************************************************************)
(* One call of random_mating or of truncation_mating on a small herd.      *)
(***************************************************************************)
MatingScenarios == {"random", "truncation"}
MatingCaps == {0, 1, 2}
MatingPcts == {-10, 0, 50, 100, 150}
MatingValues == {1, 2, 3}
MatingCows == 0..3
MatingBulls == 1..2

MatingInit ==
    /\ pc = "call"
    /\ ret = <<>>
    /\ frame = <<>>
    /\ \E sc \in MatingScenarios, mm \in MatingCaps, pct \in MatingPcts :
         /\ (sc = "random" => pct = 50) /\ (sc = "truncation" => mm = 1)
         /\ call = [scenario |-> sc, max_matings |-> mm, pct |-> pct, recessives |-> <<Horned>>,
                    calf_loss |-> 0, dehorning_loss |-> 0, harvest_beef |-> 0]
    /\ \E nc \in MatingCows, nb \in MatingBulls :
         \E bt \in [1..nb -> MatingValues] :
            sim = [generation |-> 1,
                   main |-> Population([i \in 1..nc |-> Founder(i, 0, 0, 1, <<-1>>)],
                                       [i \in 1..nb |-> Founder(nc + i, 0, 0, bt[i], <<0>>)],
                                       <<>>, <<>>),
                   nucleus |-> NoAnimals,
                   created |-> [i \in 1..(nc + nb) |-> i],
                   maf |-> [main |-> <<>>, nucleus |-> <<>>]]

RandomMating ==
    /\ pc = "call"
    /\ call.scenario = "random"
    /\ \E o \in random_mating(sim.main, call.max_matings, <<>>) :
         /\ ret' = <<o>>
         /\ sim' = [sim EXCEPT !.main = o.P]
         /\ pc' = IF o.at = "returned" THEN "returned" ELSE "aborted"
    /\ UNCHANGED <<call, frame>>

TruncationMating ==
    /\ pc = "call"
    /\ call.scenario = "truncation"
    /\ \E o \in truncation_mating(sim.main, sim.generation, call.recessives, call.pct,
                                  call.calf_loss, call.dehorning_loss, call.harvest_beef, <<>>) :
         /\ ret' = <<o>>
         /\ sim' = [sim EXCEPT !.main = o.P]
         /\ pc' = IF o.at = "returned" THEN "returned" ELSE "aborted"
    /\ UNCHANGED <<call, frame>>

MatingNext == RandomMating \/ TruncationMating
SpecMating == MatingInit /\ [][MatingNext]_vars

\* The live cows of a population that have a calf in it with the given sires.
cows_with_calf(P, calves, sires) ==
    {i \in 1..Len(P.cows) : \E k \in 1..Len(calves) :
        calves[k].dam = P.cows[i].animal /\ calves[k].sire \in sires}

\* C11: a call of random_mating with fewer matings than cows (live bulls times
\* max_matings below the number of live cows) comes to an end by returning: the
\* step completes and the cows that could not be served are left without a calf.
C11_RandomMatingCompletes ==
    (/\ call.scenario = "random"
     /\ pc # "call"
     /\ Len(sim.main.bulls) * call.max_matings < Len(sim.main.cows)
     /\ call.max_matings > 0) => pc = "returned"

\* C28: under random and truncation mating a calf is made only after the
\* inbreeding coefficients of the generation have been solved: a call that has
\* made a calf has a completed solver run behind it.
C28_RefreshBeforeFirstCalf ==
    (pc # "call" /\ ret[1].calves # <<>>) => ret[1].solved = "complete"

\* C12: a call of truncation_mating with pct in [0,1], a live bull and a live
\* cow returns, and then every live cow has exactly one calf, sired by one of the int(pct x
\* number of bulls) bulls with the highest TBV.
C12_TruncationMatesEveryCow ==
    (/\ call.scenario = "truncation"
     /\ pc # "call"
     /\ call.pct >= 0 /\ call.pct <= 100
     /\ Len(sim.main.cows) > 0) =>
        /\ pc = "returned"
        /\ LET P == ret[1].P
               n == Len(P.bulls)
               b2k == (call.pct * n) \div 100
               top == {P.bulls[i].animal : i \in (n - b2k + 1)..n}
               calves == SelectSeq(P.cows \o P.bulls \o P.dead_cows \o P.dead_bulls,
                                   LAMBDA x : x.born = sim.generation)
           IN \A i \in 1..Len(sim.main.cows) :
                 sim.main.cows[i].born < sim.generation =>
                     /\ i \in cows_with_calf(P, calves, top)
                     /\ Cardinality({k \in 1..Len(calves) : calves[k].dam = P.cows[i].animal}) = 1

(***************************************************************************)
(* Calls of edit_genes, one a generation, on a herd of one cow and one     *)
(* bull.  frame keeps, as a history of the last call, the lists before it, *)
(* its generation and sex, and the clones it made.                         *)
(***************************************************************************)
EditCalls == 2

EditTables == {<<Horned, Coat>>, <<Coat, Horned>>, <<Horned, [Coat EXCEPT !.edit = 1]>>}
EditProps == {50, 100, 150}
EditTrials == {1, -1}
EmbryoTrials == {1, -1}

EditInit ==
    /\ pc = "edit"
    /\ ret = <<>>
    /\ frame = <<>>
    /\ \E t \in EditTables, ep \in EditProps, et \in EditTrials, em \in EmbryoTrials :
         call = [recessives |-> t, edit_prop |-> ep, edit_type |-> "C",
                 edit_trials |-> et, embryo_trials |-> em]
    /\ \E cg \in [1..2 -> Genotypes], bg \in [1..2 -> {0, 1}] :
         sim = [generation |-> 1,
                main |-> Population(<<Founder(1, 0, 0, 1, cg)>>, <<Founder(2, 0, 0, 2, bg)>>,
                                    <<>>, <<>>),
                nucleus |-> NoAnimals,
                created |-> <<1, 2>>,
                maf |-> [main |-> <<>>, nucleus |-> <<>>]]

EditGenes ==
    /\ pc = "edit"
    /\ \E edit_sex \in {"M", "F"} :
         \E o \in edit_genes(sim.main, <<>>, call.recessives, sim.generation, call.edit_prop,
                             call.edit_type, call.edit_trials, call.embryo_trials, edit_sex) :
            /\ sim' = [sim EXCEPT !.main = o.P, !.created = @ \o o.created,
                                  !.generation = @ + 1]
            /\ frame' = [before |-> sim.main, generation |-> sim.generation,
                         edit_sex |-> edit_sex, clones |-> o.clones]
            /\ pc' = IF o.at # "returned" THEN "aborted"
                     ELSE IF sim.generation < EditCalls THEN "edit" ELSE "done"
    /\ UNCHANGED <<call, ret>>

EditNext == EditGenes
SpecEdit == EditInit /\ [][EditNext]_vars

\* C30: an out-of-range parameter of a core operation is replaced by its
\* default and the operation completes: a call of edit_genes with edit_prop
\* outside [0,1], and every other parameter in range, does not abort.
C30_OutOfRangeEditPropCompletes ==
    (/\ call.edit_prop < 0 \/ call.edit_prop > 100
     /\ call.edit_trials > 0 /\ call.embryo_trials > 0) => pc # "aborted"

\* The live and the dead list that a call of edit_genes for a sex works on.
edited_live(P, edit_sex) == IF edit_sex = "M" THEN P.bulls ELSE P.cows
edited_dead(P, edit_sex) == IF edit_sex = "M" THEN P.dead_bulls ELSE P.dead_cows

EditCalled == frame # <<>>

\* C13: after a call of edit_genes every record that was in a list before the
\* call is in the same list with every field as it was, and every clone is a
\* copy of a record of the list that was edited, with an id that no record had
\* before and with the generation of the call as its birth.
C13_OriginalsUntouched ==
    EditCalled =>
        /\ Range(frame.before.cows) \subseteq Range(sim.main.cows)
        /\ Range(frame.before.bulls) \subseteq Range(sim.main.bulls)
        /\ Range(frame.before.dead_cows) \subseteq Range(sim.main.dead_cows)
        /\ Range(frame.before.dead_bulls) \subseteq Range(sim.main.dead_bulls)
        /\ \A i \in 1..Len(frame.clones) :
              LET x == frame.clones[i]
              IN /\ x.orig \in Range(edited_live(frame.before, frame.edit_sex))
                 /\ x.ed.animal \notin id_list(Lists(frame.before))
                 /\ x.ed.born = frame.generation
                 /\ \A j \in 1..Len(frame.clones) : frame.clones[j].ed.animal = x.ed.animal => i = j

\* C13 witness: a call has made two clones, one whose edit succeeded and whose
\* embryo was carried, and one whose embryo was lost.
C13_Witness ==
    /\ EditCalled
    /\ \E i, j \in 1..Len(frame.clones) :
         /\ ~frame.clones[i].dead
         /\ \E r \in 1..Len(call.recessives) :
               frame.clones[i].ed.edit_status[r] = 1 /\ frame.clones[i].orig.edit_status[r] = 0
         /\ frame.clones[j].dead

\* C14: for every clone and every locus whose edit flag is off, the genotype,
\* the edit-success flag and the edit count of the clone at that locus are those
\* of the animal that was copied.
C14_OnlyFlaggedLociEdited ==
    EditCalled =>
        \A i \in 1..Len(frame.clones), r \in 1..Len(call.recessives) :
            call.recessives[r].edit = 0 =>
                /\ frame.clones[i].ed.genotypes[r] = frame.clones[i].orig.genotypes[r]
                /\ frame.clones[i].ed.edit_status[r] = frame.clones[i].orig.edit_status[r]
                /\ frame.clones[i].ed.edit_count[r] = frame.clones[i].orig.edit_count[r]

\* C15: with a bounded number of embryo transfers, a clone whose transfers all
\* failed is in the dead list of its sex with reason 'G' and not in the live
\* list, and a clone that was carried is in the live list, alive, with no reason
\* and no generation of death.
C15_CloneInOneList ==
    (EditCalled /\ call.embryo_trials > 0) =>
        \A i \in 1..Len(frame.clones) :
            LET x == frame.clones[i]
                live == edited_live(sim.main, frame.edit_sex)
                dead == edited_dead(sim.main, frame.edit_sex)
            IN IF x.dead
                  THEN /\ x.ed \in Range(dead)
                       /\ x.ed.alive = "D" /\ x.ed.reason = "G"
                       /\ \A k \in 1..Len(live) : live[k].animal # x.ed.animal
                  ELSE /\ x.ed \in Range(live)
                       /\ x.ed.alive = "A" /\ x.ed.reason = "" /\ x.ed.died = -1

\* C16 as stated: at a locus where the animal that is copied is homozygous-major
\* no edit trial is run and the edit-success flag of the clone is 0.
C16_MajorLocusFlagUnset ==
    EditCalled =>
        \A i \in 1..Len(frame.clones), r \in 1..Len(call.recessives) :
            frame.clones[i].orig.genotypes[r] = 1 =>
                /\ frame.clones[i].trials[r] = 0
                /\ frame.clones[i].ed.edit_status[r] = 0

\* C16, amended: at a locus where the animal that is copied is homozygous-major
\* no edit trial is run and the clone keeps the genotype, the edit-success flag
\* and the edit count of that animal at the locus: the flag is 0 unless the
\* animal that is copied carries a successful edit there.
C16_MajorLocusIsCopied ==
    EditCalled =>
        \A i \in 1..Len(frame.clones), r \in 1..Len(call.recessives) :
            frame.clones[i].orig.genotypes[r] = 1 =>
                /\ frame.clones[i].trials[r] = 0
                /\ frame.clones[i].ed.genotypes[r] = 1
                /\ frame.clones[i].ed.edit_status[r] = frame.clones[i].orig.edit_status[r]
                /\ frame.clones[i].ed.edit_count[r] = frame.clones[i].orig.edit_count[r]
                /\ (frame.clones[i].orig.reason # "G" => frame.clones[i].ed.edit_status[r] = 0)

\* C16 witness: the second call has copied a clone of the first call at a locus
\* that the first call edited, and a founder that is homozygous-major at a locus
\* has been copied with a trial at its other locus.
C16_Witness ==
    /\ EditCalled
    /\ frame.generation = 2
    /\ \E i, j \in 1..Len(frame.clones), r, q \in 1..Len(call.recessives) :
         /\ frame.clones[i].orig.reason = "G"
         /\ frame.clones[i].orig.edit_status[r] = 1
         /\ frame.clones[i].orig.genotypes[r] = 1
         /\ frame.clones[j].orig.reason = ""
         /\ frame.clones[j].orig.genotypes[q] = 1
         /\ \E u \in 1..Len(call.recessives) : frame.clones[j].trials[u] > 0

(***************************************************************************)
(* Properties of the culling of a run (checked under Spec).                *)
(***************************************************************************)
\* The animals of a list that are older than a maximum age in the generation
\* of the run.
over_age(animals, max_age) ==
    {i \in 1..Len(animals) : sim.generation - animals[i].born > max_age}

\* C17: when the bulls and the cows of a generation have been culled, no live
\* bull is older than the max_bull_age of the run and no live cow older than its
\* max_cow_age, in the main population and in the nucleus.
C17_NoLiveAnimalOverAge ==
    pc = "maf" =>
        /\ over_age(sim.main.bulls, call.max_bull_age) = {}
        /\ over_age(sim.main.cows, call.max_cow_age) = {}
        /\ call.use_nucleus =>
              /\ over_age(sim.nucleus.bulls, call.nucleus_max_bull_age) = {}
              /\ over_age(sim.nucleus.cows, call.nucleus_max_cow_age) = {}

(***************************************************************************)
(* One call of cull_bulls or of cull_cows on a small herd, in generation 1. *)
(* frame keeps, as a history, the lists before the call and the live list  *)
(* that the cull on number started from.                                   *)
(***************************************************************************)
CullSizes == 0..3
CullValues == {1, 2}
CullBirths == {0, -3}
CullMaxBulls == {-1, 0, 1, 2}
CullMaxCows == {-1, 0, 1, 2, 4}
CullHerds == {1, 2}
CullRates == {0, 50}

CullInit ==
    /\ pc = "cull"
    /\ ret = <<>>
    /\ frame = <<>>
    /\ \E what \in {"bulls", "cows"}, mb \in CullMaxBulls, mc \in CullMaxCows,
          bh \in CullHerds, cr \in CullRates, n \in CullSizes :
         \E tbv \in [1..n -> CullValues], born \in [1..n -> CullBirths],
            herd \in [1..n -> 0..(bh - 1)] :
            /\ what = "bulls" => (mc = 0 /\ bh = 1 /\ cr = 0)
            /\ what = "cows" => (mb = 0 /\ \A i \in 1..n : tbv[i] = 1)
            /\ call = [what |-> what, max_bulls |-> mb, max_bull_age |-> DefaultMaxBullAge,
                       max_cows |-> mc, max_cow_age |-> 3, base_herds |-> bh,
                       culling_rate |-> cr]
            /\ LET animals == [i \in 1..n |-> Founder(i, born[i], herd[i], tbv[i], <<0>>)]
               IN sim = [generation |-> 1,
                         main |-> IF what = "bulls"
                                     THEN Population(<<>>, animals, <<>>, <<>>)
                                     ELSE Population(animals, <<>>, <<>>, <<>>),
                         nucleus |-> NoAnimals,
                         created |-> [i \in 1..n |-> i],
                         maf |-> [main |-> <<>>, nucleus |-> <<>>]]

CallCullBulls ==
    /\ pc = "cull"
    /\ call.what = "bulls"
    /\ LET o == cull_bulls(sim.main.bulls, sim.main.dead_bulls, sim.generation,
                           call.max_bulls, call.max_bull_age)
       IN /\ sim' = [sim EXCEPT !.main.bulls = o.bulls, !.main.dead_bulls = o.dead_bulls]
          /\ frame' = [before |-> sim.main, pre |-> o.aged]
    /\ pc' = "culled"
    /\ UNCHANGED <<call, ret>>

CallCullCows ==
    /\ pc = "cull"
    /\ call.what = "cows"
    /\ \E o \in cull_cows(sim.main.cows, sim.main.dead_cows, sim.generation, call.base_herds,
                          call.max_cows, call.max_cow_age, call.culling_rate) :
          /\ sim' = [sim EXCEPT !.main.cows = o.cows, !.main.dead_cows = o.dead_cows]
          /\ frame' = [before |-> sim.main, pre |-> o.pre]
    /\ pc' = "culled"
    /\ UNCHANGED <<call, ret>>

CullNext == CallCullBulls \/ CallCullCows
SpecCull == CullInit /\ [][CullNext]_vars

\* The bulls that the cull on number took: live after the age cull, not live
\* after the call.
removed_for_capacity ==
    {b \in Range(frame.pre) : \A k \in 1..Len(sim.main.bulls) : sim.main.bulls[k].animal # b.animal}

\* The statement of C18 for a cap: with more live bulls than the cap after the
\* age cull, exactly cap bulls stay alive, every bull removed is in the dead list
\* with reason 'N' and no bull that stays has a smaller TBV than a bull removed;
\* otherwise the live bulls are those left by the age cull.
capacity_cull_holds(cap) ==
    IF Len(frame.pre) > cap
       THEN /\ Len(sim.main.bulls) = cap
            /\ Range(sim.main.bulls) \subseteq Range(frame.pre)
            /\ \A b \in removed_for_capacity :
                  /\ culled(b, "N", sim.generation) \in Range(sim.main.dead_bulls)
                  /\ \A k \in 1..Len(sim.main.bulls) : sim.main.bulls[k].tbv >= b.tbv
       ELSE sim.main.bulls = frame.pre

\* C18 as stated: the cap of the cull on number is the argument max_bulls (taken
\* here for the values that are not negative).
C18_CapacityCullToMaxBulls ==
    (pc = "culled" /\ call.what = "bulls" /\ call.max_bulls >= 0) =>
        capacity_cull_holds(call.max_bulls)

\* C18, amended: the cap of the cull on number is max_bulls or, when max_bulls
\* is zero or negative, 250.
C18_CapacityCullToCap ==
    (pc = "culled" /\ call.what = "bulls") =>
        capacity_cull_holds(IF call.max_bulls <= 0 THEN 250 ELSE call.max_bulls)

\* C18 witness: three bulls were left by the age cull, the cap is one, and a
\* bull that was removed has a smaller TBV than the bull that stays.
C18_Witness ==
    /\ pc = "culled" /\ call.what = "bulls"
    /\ call.max_bulls = 1
    /\ Len(frame.pre) = 3
    /\ Len(frame.before.bulls) = 3
    /\ \E b \in removed_for_capacity : b.tbv < sim.main.bulls[1].tbv

\* The cows of a herd in a list.
herd_size(cows, herd) == Cardinality({i \in 1..Len(cows) : cows[i].herd = herd})

\* C19: after cull_cows with max_cows > 0 there are at most max_cows live cows
\* and every herd holds the smaller of its size before the cull on number and the
\* target, which is floor(max_cows / base_herds) when the cows before the cull on
\* number are at least max_cows and floor(cows / base_herds) otherwise; with
\* max_cows = 0 the cull on number removes no cow.
C19_HerdsTrimmedToTarget ==
    (pc = "culled" /\ call.what = "cows") =>
        LET n == Len(frame.pre)
            target == IF n >= call.max_cows THEN call.max_cows \div call.base_herds
                                            ELSE n \div call.base_herds
            smaller(a, b) == IF a < b THEN a ELSE b
        IN /\ call.max_cows > 0 =>
                 /\ Len(sim.main.cows) <= call.max_cows
                 /\ \A h \in 0..(call.base_herds - 1) :
                       herd_size(sim.main.cows, h) = smaller(herd_size(frame.pre, h), target)
                 /\ Range(sim.main.cows) \subseteq Range(frame.pre)
           /\ call.max_cows = 0 => Range(sim.main.cows) = Range(frame.pre)

\* C19 witness: two herds, fewer cows than max_cows, and a herd of three cows was
\* trimmed to the target of one; no cow was old.
C19_Witness ==
    /\ pc = "culled" /\ call.what = "cows"
    /\ call.base_herds = 2 /\ call.max_cows = 4
    /\ Len(frame.pre) = 3
    /\ \E h \in 0..1 : herd_size(frame.pre, h) = 3 /\ herd_size(sim.main.cows, h) = 1
    /\ Len(sim.main.dead_cows) = 2

(***************************************************************************)
(* One call of update_maf at the end of a generation.                      *)
(***************************************************************************)
MafTables == {<<Horned>>, <<Horned, Coat>>, <<Lethal1, Coat>>, <<Coat, Lethal1>>}
MafCows == 0..2
MafBulls == 0..1
MafGenerations == {1, 2}

\* The genotypes a live animal can have at a locus: a founder is drawn AA or Aa
\* at a lethal and a calf that is aa at a lethal is born dead.
MafGenotypes(rv) == IF rv.lethal = 1 THEN {0, 1} ELSE Genotypes

MafVectors(recessives) ==
    {gt \in [1..Len(recessives) -> Genotypes] :
        \A r \in 1..Len(recessives) : gt[r] \in MafGenotypes(recessives[r])}

\* The table as the run holds it before the call, with the frequencies of the
\* parameters, and the history with the entry of the founders.
MafInit ==
    /\ pc = "maf"
    /\ ret = <<>>
    /\ \E table \in MafTables, nc \in MafCows, nb \in MafBulls, g \in MafGenerations :
         \E cg \in [1..nc -> MafVectors(table)], bg \in [1..nb -> MafVectors(table)] :
            LET recessives == [r \in 1..Len(table) |->
                                  [table[r] EXCEPT !.frequency = quotient(1, 2)]]
            IN /\ call = [recessives |-> recessives]
               /\ frame = [freq_hist |-> [h \in {0} |-> [r \in 1..Len(table) |-> quotient(1, 2)]],
                           calls |-> 0, first |-> <<>>]
               /\ sim = [generation |-> g,
                         main |-> Population([i \in 1..nc |-> Founder(i, 0, 0, 1, cg[i])],
                                             [i \in 1..nb |-> Founder(nc + i, 0, 0, 1, bg[i])],
                                             <<>>, <<>>),
                         nucleus |-> NoAnimals,
                         created |-> [i \in 1..(nc + nb) |-> i],
                         maf |-> [main |-> <<>>, nucleus |-> <<>>]]

\* The history after a call: freq_hist[generation] = [] empties the entry of
\* the generation, then the frequency of each locus is appended to it.
freq_hist_appended(freq_hist, generation, r_freq) ==
    [h \in DOMAIN freq_hist \cup {generation} |->
        IF h # generation THEN freq_hist[h]
        ELSE IF h \in DOMAIN freq_hist THEN freq_hist[h] \o r_freq ELSE r_freq]

freq_hist_entry(freq_hist, generation, r_freq) ==
    [h \in DOMAIN freq_hist \cup {generation} |->
        IF h = generation THEN r_freq ELSE freq_hist[h]]

\* recessives, freq_hist = update_maf(cows, bulls, generation, recessives, freq_hist):
\* the entry of the generation is emptied before the first division.  The
\* call is made once more for the same generation, on the table and the
\* history that the first call left; `first` keeps what the first call left.
UpdateMaf ==
    /\ pc = "maf" \/ (pc = "maf_done" /\ frame.calls = 1)
    /\ LET recessives == IF pc = "maf" THEN call.recessives ELSE ret.recessives
           maf == update_maf(sim.main.cows, sim.main.bulls, recessives)
       IN /\ ret' = [at |-> maf.at, recessives |-> maf.recessives]
          /\ frame' = [freq_hist |-> freq_hist_entry(frame.freq_hist, sim.generation, maf.r_freq),
                       calls |-> frame.calls + 1,
                       first |-> IF pc = "maf" THEN <<>>
                                 ELSE [recessives |-> ret.recessives, freq_hist |-> frame.freq_hist]]
          /\ sim' = [sim EXCEPT !.maf.main = maf.freq]
          /\ pc' = IF maf.at = "returned" THEN "maf_done" ELSE "aborted"
    /\ UNCHANGED call

MafNext == UpdateMaf

SpecMaf == MafInit /\ [][MafNext]_vars

\* The copies of the minor allele among the live animals, counted animal by animal.
RECURSIVE copies(_, _)
copies(animals, r) ==
    IF animals = <<>> THEN 0
    ELSE (CASE Head(animals).genotypes[r] = 0 -> 1
            [] Head(animals).genotypes[r] = -1 -> 2
            [] OTHER -> 0) + copies(Tail(animals), r)

live_animals == sim.main.cows \o sim.main.bulls

C21_HistoryHasOneEntryPerGeneration ==
    pc = "done" =>
        /\ Cardinality(DOMAIN sim.freq_hist.main) = call.gens + 1
        /\ \A g \in DOMAIN sim.freq_hist.main :
              \A r \in 1..Len(sim.freq_hist.main[g]) :
                 sim.freq_hist.main[g][r] \in 0..100

(***************************************************************************)
(* The genotypes of the founders of create_base_population.                *)
(***************************************************************************)
\* base_cow_gt and base_bull_gt, for a table whose frequencies are strictly
\* between 0 and 1.  A lethal is drawn AA or Aa; another locus is drawn allele
\* by allele and, for Horned, changed as base_polled asks.  force_carriers
\* writes row r of column r (numpy raises IndexError if there is no such row).
\* The polled bulls of polled_parms are then written in column r, the variable
\* the loop over the loci left behind, which is the last locus of the table.
base_genotypes(base_cows, base_bulls, recessives, force_carriers, base_polled, polled_parms) ==
    LET L == Len(recessives)
        horned(r) == recessives[r].name = "Horned"
        drawn(r) == IF recessives[r].lethal = 1 THEN {0, 1}
                    ELSE IF horned(r) /\ base_polled = "homo" THEN {1, -1}
                    ELSE IF horned(r) /\ base_polled = "het" THEN {0, -1}
                    ELSE Genotypes
        forced(r) == IF ~force_carriers THEN {}
                     ELSE IF recessives[r].lethal = 1 THEN {0}
                     ELSE IF horned(r) /\ base_polled = "homo" THEN {1}
                     ELSE IF horned(r) /\ base_polled = "both" THEN {0, 1}
                     ELSE {}
        cell(i, r) == IF i = r /\ forced(r) # {} THEN forced(r) ELSE drawn(r)
        matrices(n) == {gt \in [1..n -> [1..L -> Genotypes]] :
                           \A i \in 1..n : \A r \in 1..L : gt[i][r] \in cell(i, r)}
        polled == polled_parms # <<>> /\ polled_parms[1] > 0
        polled_cell(g) == IF ~polled THEN {g}
                          ELSE (IF FALSE \in Bern(polled_parms[1]) THEN {g} ELSE {})
                               \cup (IF TRUE \in Bern(polled_parms[1])
                                        THEN {IF pp THEN 1 ELSE 0 : pp \in Bern(polled_parms[2])}
                                        ELSE {})
        polled_bulls(gt) == {pg \in [1..base_bulls -> [1..L -> Genotypes]] :
                                \A b \in 1..base_bulls : \A r \in 1..L :
                                    pg[b][r] \in (IF r = L THEN polled_cell(gt[b][r]) ELSE {gt[b][r]})}
    IN IF \E r \in 1..L : forced(r) # {} /\ (r > base_cows \/ r > base_bulls)
          THEN {[at |-> "IndexError", base_cow_gt |-> <<>>, base_bull_gt |-> <<>>]}
          ELSE {[at |-> "returned", base_cow_gt |-> cg, base_bull_gt |-> pg]
                : cg \in matrices(base_cows),
                  pg \in UNION {polled_bulls(bg) : bg \in matrices(base_bulls)}}

\* The calls: one or two loci with a lethal among them, one or two cows and
\* bulls, and polled proportions that are absent, zero, certain or possible.
BaseInit ==
    /\ pc = "start"
    /\ ret = <<>>
    /\ frame = <<>>
    /\ sim = <<>>
    /\ \E table \in {<<Lethal1>>, <<Horned, Lethal1>>, <<Lethal1, Horned>>},
          nc \in 1..2, nb \in 1..2, fc \in BOOLEAN, bp \in {"homo", "het", "both"},
          pp \in {<<>>, <<0, 0>>, <<100, 100>>, <<50, 50>>} :
         call = [recessives |-> table, base_cows |-> nc, base_bulls |-> nb,
                 force_carriers |-> fc, base_polled |-> bp, polled_parms |-> pp]

\* cows, bulls, dead_cows, dead_bulls, freq_hist = create_base_population(...)
CreateBase ==
    /\ pc = "start"
    /\ \E o \in base_genotypes(call.base_cows, call.base_bulls, call.recessives,
                                call.force_carriers, call.base_polled, call.polled_parms) :
          IF o.at = "returned"
             THEN /\ pc' = "created"
                  /\ ret' = [at |-> o.at]
                  /\ sim' = [main |-> Population(
                                 [i \in 1..call.base_cows |-> Founder(i, 0, 0, 1, o.base_cow_gt[i])],
                                 [i \in 1..call.base_bulls |->
                                     Founder(i + call.base_cows, 0, 0, 1, o.base_bull_gt[i])],
                                 <<>>, <<>>)]
             ELSE /\ pc' = "aborted"
                  /\ ret' = [at |-> o.at]
                  /\ sim' = sim
    /\ UNCHANGED <<call, frame>>

SpecBase == BaseInit /\ [][CreateBase]_vars

carriers(animals, r) == {i \in 1..Len(animals) : animals[i].genotypes[r] = 0}

\* C22: with force_carriers the base population that create_base_population
\* returns has, for every lethal locus, at least one carrier bull and at least
\* one carrier cow, whatever the other parameters are.
C22_ForcedCarriersOfLethals ==
    (pc = "created" /\ call.force_carriers) =>
        \A r \in 1..Len(call.recessives) :
            call.recessives[r].lethal = 1 =>
                /\ carriers(sim.main.cows, r) # {}
                /\ carriers(sim.main.bulls, r) # {}

(***************************************************************************)
(* The portfolios of the herds.                                            *)
(***************************************************************************)
\* C23: every bull of a herd's bull portfolio is at least bull_mating_age old
\* and every cow of a herd's cow portfolio at least cow_mating_age, founders
\* included, also when the two ages differ.
C23_PortfoliosOfMatingAge ==
    pc \in {"herd", "cow"} =>
        LET P == sim[frame.who]
        IN \A h \in 1..Len(frame.bull_portfolio) :
              /\ \A i \in 1..Len(frame.bull_portfolio[h]) :
                    sim.generation - P.bulls[frame.bull_portfolio[h][i]].born >= call.bull_mating_age
              /\ \A k \in 1..Len(frame.cow_portfolio[h]) :
                    sim.generation - P.cows[frame.cow_portfolio[h][k]].born >= call.cow_mating_age

(***************************************************************************)
(* The loop of compute_inbreeding over the herds, which asks get_herd_bulls *)
(* for the bulls of each herd in turn.                                     *)
(***************************************************************************)
\* One to three bulls born in the run, the last one possibly too young to
\* mate, spread over the first herds; one to three herds to serve.
HerdInit ==
    /\ pc = "portfolios"
    /\ ret = <<>>
    /\ frame = <<>>
    /\ \E bc \in {"random", "polled"}, bd \in {"use_horned", "open", "horned", "no_limit"},
          bu \in BOOLEAN, sb \in 1..2, bh \in 1..3, n \in 1..3, k \in 1..3,
          young \in BOOLEAN :
         \E gt \in [1..n -> {1, -1}] :
            /\ k <= bh
            /\ call = [PryceCall("pryce", 1, bd, sb, bh, bu) EXCEPT !.bull_criterion = bc]
            /\ sim = [generation |-> 2,
                      main |-> Population(<<>>,
                                  [i \in 1..n |->
                                      Animal(i, 0, 0, IF young /\ i = n THEN 2 ELSE 1, "M",
                                             (i - 1) % k, i, <<gt[i]>>)],
                                  <<>>, <<>>),
                      nucleus |-> NoAnimals,
                      created |-> [i \in 1..n |-> i],
                      maf |-> [main |-> <<>>, nucleus |-> <<>>]]

\* for herd in xrange(base_herds): the portfolio of each herd, as ids.
HerdPortfolios ==
    /\ pc = "portfolios"
    /\ \E st \in herd_portfolios([bulls |-> sim.main.bulls, at |-> "returned", bull_used |-> {},
                                    bull_portfolio |-> <<>>, cow_portfolio |-> <<>>],
                                   0, sim.main.cows, sim.generation, pryce_args(call, "main")) :
          /\ frame' = [bull_portfolio |->
                          [h \in 1..Len(st.bull_portfolio) |->
                              [i \in 1..Len(st.bull_portfolio[h]) |-> st.bull_portfolio[h][i].animal]]]
          /\ sim' = [sim EXCEPT !.main.bulls = st.bulls]
          /\ pc' = IF st.at = "returned" THEN "selected" ELSE "aborted"
    /\ UNCHANGED <<call, ret>>

SpecHerd == HerdInit /\ [][HerdPortfolios]_vars

\* C24: with unique portfolios and a deficit policy other than 'no_limit', no
\* bull is in the portfolios of two different herds of a generation, under the
\* random and under the polled criterion.
C24_NoBullInTwoPortfolios ==
    (pc = "selected" /\ call.bull_unique /\ call.bull_deficit # "no_limit") =>
        \A h1, h2 \in 1..Len(frame.bull_portfolio) :
            h1 # h2 => Range(frame.bull_portfolio[h1]) \cap Range(frame.bull_portfolio[h2]) = {}

\* Unique portfolios under the polled criterion, with two herds that each got
\* a bull and a third bull that is in one of them.
C24_Witness ==
    /\ pc = "selected"
    /\ call.bull_unique
    /\ call.bull_criterion = "polled"
    /\ call.bull_deficit = "use_horned"
    /\ Len(sim.main.bulls) = 3
    /\ \E h1, h2 \in 1..Len(frame.bull_portfolio) :
          h1 # h2 /\ frame.bull_portfolio[h1] # <<>> /\ frame.bull_portfolio[h2] # <<>>

breeding_age_bulls ==
    {b.animal : b \in {x \in Range(sim.main.bulls) : sim.generation - x.born >= call.bull_mating_age}}

\* C25: under the random criterion with unique portfolios, when the bulls of
\* breeding age do not divide evenly among the herds and there are fewer bulls
\* per herd than service_bulls, the pass over the herds puts every bull of
\* breeding age in exactly one portfolio.
C25_EveryBullAssignedOnce ==
    (/\ pc = "selected"
     /\ call.bull_criterion = "random"
     /\ call.bull_unique
     /\ Cardinality(breeding_age_bulls) % call.base_herds # 0
     /\ Cardinality(breeding_age_bulls) \div call.base_herds < call.service_bulls) =>
        \A id \in breeding_age_bulls :
            Cardinality({h \in 1..Len(frame.bull_portfolio) : id \in Range(frame.bull_portfolio[h])}) = 1

(***************************************************************************)
(* The coefficients of inbreeding that compute_inbreeding reads back.      *)
(***************************************************************************)
\* C26: if the output of the solver lacks the coefficient of a live or dead
\* animal the call aborts before any calf is made, and if the output is
\* complete the call returns and every live and dead animal has the
\* coefficient of the solver for its id.
C26_CoefficientsCompleteOrAbort ==
    /\ (pc = "aborted" /\ ret # <<>>) =>
           (ret.solved # "complete" /\ frame = [who |-> "main"] /\ sim.created = <<1, 2, 3, 4>>)
    /\ (pc = "herd" /\ frame.herd = 1) =>
           \A x \in Range(sim.main.cows \o sim.main.bulls \o sim.main.dead_cows \o sim.main.dead_bulls) :
               x.inbreeding = frame.own[x.animal]

(***************************************************************************)
(* The pedigree that is given to the solver.                               *)
(***************************************************************************)
\* C27: a pedigree given to the solver has exactly one row for every live and
\* dead animal of the main population and of the nucleus, so that every sire
\* and dam that a row names, other than 0, has a row of its own.
C27_PedigreeCoversAllPopulations ==
    (pc = "herd" /\ frame.herd = 1 /\ call.use_nucleus) =>
        LET rows == frame.pedigree.old
        IN /\ \A x \in all_records :
                 Cardinality({i \in 1..Len(rows) : rows[i][1] = x.animal}) = 1
           /\ \A i \in 1..Len(rows) :
                 \A parent \in {rows[i][2], rows[i][3]} \ {0} :
                    \E j \in 1..Len(rows) : rows[j][1] = parent

(***************************************************************************)
(* Two runs of run_scenario, a and b, with one configuration and one seed. *)
(* The program draws from two generators: the module random, used for the  *)
(* birth years and herds of the founders, the shuffles and the involuntary *)
(* culling, and numpy.random, used by bernoulli.rvs for the genotypes and  *)
(* the sex of a calf.  A generator is a function of its state: a draw      *)
(* moves the state on and the number drawn is read from the new state.     *)
(* The states are the numbers 0..15.                                       *)
(***************************************************************************)
rvs(stream, p) ==
    LET state == (5 * stream + 3) % 16
    IN [stream |-> state, value |-> IF (state * 100) \div 16 < p THEN 1 ELSE 0]

\* random.seed(rng_seed) in run_scenario: every integer seeds the generator.
random_seed(rng_seed) == rng_seed % 16

\* The seeding in create_base_population: `if rng_seed:` is false for the seed
\* 0, and numpy.random.seed() without an argument takes the state from the
\* entropy of the operating system.
np_random_seed(rng_seed) == IF rng_seed # 0 THEN {rng_seed % 16} ELSE {2, 9, 13}

SeedInit ==
    /\ pc = [r \in {"a", "b"} |-> "start"]
    /\ ret = <<>>
    /\ frame = <<>>
    /\ sim = [r \in {"a", "b"} |-> [random |-> 0, np |-> 0, generation |-> 0, cows |-> <<>>, hist |-> <<>>]]
    /\ \E seed \in {0, 1, 419}, f \in {25, 50, 75}, age \in {1, 3}, n \in 1..2 :
         call = [rng_seed |-> seed, gens |-> n, base_max_cow_age |-> age, frequency |-> f]

\* The start of run r: the two seedings, then a founder cow whose alleles are
\* two draws of numpy.random and whose birth year is a draw of random.
SeededFounders(r) ==
    /\ pc[r] = "start"
    /\ \E np \in np_random_seed(call.rng_seed) :
         LET s_allele == rvs(np, 100 - call.frequency)
             d_allele == rvs(s_allele.stream, 100 - call.frequency)
             born == rvs(random_seed(call.rng_seed), 0)
             cows == <<[animal |-> 1, sex |-> "F", born |-> -(born.stream % call.base_max_cow_age),
                        genotypes |-> <<s_allele.value + d_allele.value - 1>>]>>
         IN sim' = [sim EXCEPT ![r] = [random |-> born.stream, np |-> d_allele.stream,
                                       generation |-> 1, cows |-> cows, hist |-> <<cows>>]]
    /\ pc' = [pc EXCEPT ![r] = "loop"]
    /\ UNCHANGED <<call, ret, frame>>

\* A generation of run r: a calf, whose sex is a draw of numpy.random.
SeededGeneration(r) ==
    /\ pc[r] = "loop"
    /\ LET sex == rvs(sim[r].np, 50)
           calf == [animal |-> Len(sim[r].cows) + 1, sex |-> IF sex.value = 1 THEN "M" ELSE "F",
                    born |-> sim[r].generation, genotypes |-> sim[r].cows[1].genotypes]
           cows == Append(sim[r].cows, calf)
       IN sim' = [sim EXCEPT ![r] = [@ EXCEPT !.np = sex.stream, !.generation = @ + 1,
                                               !.cows = cows, !.hist = Append(@, cows)]]
    /\ pc' = [pc EXCEPT ![r] = IF sim[r].generation = call.gens THEN "done" ELSE "loop"]
    /\ UNCHANGED <<call, ret, frame>>

SeedNext == \E r \in {"a", "b"} : SeededFounders(r) \/ SeededGeneration(r)
SpecSeed == SeedInit /\ [][SeedNext]_vars

\* C29: two runs with the same configuration and the same seed, whatever the
\* seed, hold the same animals after the founders and after every generation.
C29_SameSeedSameRun ==
    \A g \in 1..3 :
        (Len(sim.a.hist) >= g /\ Len(sim.b.hist) >= g) => sim.a.hist[g] = sim.b.hist[g]

(***************************************************************************)
(* The count of the bred, open and too young cows of the main population.  *)
(***************************************************************************)
\* C31: where the cows are counted, every live cow is in exactly one of the
\* counts bred, open and too young, so that the three counts add up to the
\* number of live cows; and a cow counted as bred is the dam of a calf made in
\* that generation.
C31_CountsPartitionLiveCows ==
    pc = "cull_cows" =>
        LET cows == sim.main.cows
        IN /\ frame.bred_cows + frame.open_cows + frame.replacements
                  = Cardinality({i \in 1..Len(cows) : cows[i].alive = "A"})
           /\ \A i \in 1..Len(cows) :
                 (cows[i].bred = 1 /\ sim.generation - cows[i].born >= call.cow_mating_age) =>
                     \E x \in all_records : x.dam = cows[i].animal /\ x.born = sim.generation

(***************************************************************************)
(* The culls of a generation with nothing to cull.                         *)
(***************************************************************************)
\* C32: without involuntary culling, with no animal over its maximum age and
\* with fewer live cows (bulls) than the cap on them, the culls at the end of a
\* generation leave the number of live cows and of live bulls as it was.
C32_NoCullBelowCap ==
    (/\ pc = "culled"
     /\ call.culling_rate = 0
     /\ \A c \in Range(frame.before.cows) : sim.generation - c.born <= call.max_cow_age
     /\ \A b \in Range(frame.before.bulls) : sim.generation - b.born <= call.max_bull_age
     /\ call.what = "cows" => Len(frame.before.cows) < call.max_cows
     /\ call.what = "bulls" => Len(frame.before.bulls) < call.max_bulls) =>
        /\ Len(sim.main.cows) >= Len(frame.before.cows)
        /\ Len(sim.main.bulls) >= Len(frame.before.bulls)

(***************************************************************************)
(* update_maf called twice for one generation.                             *)
(***************************************************************************)
\* C33: a second call of update_maf for the same generation on the same live
\* animals returns the same frequency for each locus and leaves the history
\* as the first call left it, with the same keys and the same values.
C33_SecondCallChangesNothing ==
    (pc = "maf_done" /\ frame.calls = 2) =>
        /\ ret.recessives = frame.first.recessives
        /\ DOMAIN frame.freq_hist = DOMAIN frame.first.freq_hist
        /\ frame.freq_hist = frame.first.freq_hist

\* A second call for generation 2 on three live animals and two loci, one of
\* them with copies of the minor allele.
C33_Witness ==
    /\ pc = "maf_done" /\ frame.calls = 2
    /\ sim.generation = 2
    /\ Len(sim.main.cows \o sim.main.bulls) = 3
    /\ Len(ret.recessives) = 2
    /\ \E r \in 1..2 : frame.freq_hist[2][r].num > 0

(***************************************************************************)
(* The matings of a call of random_mating.                                 *)
(***************************************************************************)
\* C34: after a call of random_mating no bull is the sire of more than
\* max_matings (50 when max_matings <= 0) of the calves of the call, and every
\* sire of such a calf is a live bull.  The call ends at its request for the
\* next id, before the loop over the cows, so that it has no calves.
C34_RandomMatingWithinCap ==
    (call.scenario = "random" /\ pc # "call") =>
        LET calves == ret[1].calves
        IN \A k \in 1..Len(calves) :
              /\ \E b \in Range(sim.main.bulls) : b.animal = calves[k].sire /\ b.alive = "A"
              /\ Len(SelectSeq(calves, LAMBDA x : x.sire = calves[k].sire)) <= ret[1].cap

(***************************************************************************)
(* The edit trials of the loci of a clone.                                 *)
(***************************************************************************)
\* C35: with edit_trials > 0, every locus flagged for editing at which the
\* clone is Aa or aa gets its own trials, between 1 and edit_trials of them,
\* whatever happened at the loci before it; and where a trial succeeded the
\* clone is AA with the edit-success flag set and the count of the trials that
\* it took.
C35_EachFlaggedLocusHasItsTrials ==
    (EditCalled /\ call.edit_trials > 0) =>
        \A i \in 1..Len(frame.clones), r \in 1..Len(call.recessives) :
            LET x == frame.clones[i]
            IN (call.recessives[r].edit = 1 /\ x.orig.genotypes[r] \in {0, -1}) =>
                  /\ x.trials[r] \in 1..call.edit_trials
                  /\ x.ed.genotypes[r] = 1 =>
                         (x.ed.edit_status[r] = 1 /\ x.ed.edit_count[r] = x.trials[r])

(***************************************************************************)
(* The proxy calves of the pedigree.                                       *)
(***************************************************************************)
\* C36: the pedigree has a proxy calf for each bull of a portfolio and each
\* cow of breeding age of its herd, and for no other pair; the row of the
\* proxy of bull b and cow c names b as the sire and c as the dam; and the id
\* of a proxy is the id of no animal of the live and dead lists.
C36_ProxyOfBullAndCow ==
    (pc = "herd" /\ frame.herd = 1) =>
        LET P == sim[frame.who]
            rows == frame.pedigree.calves
            pairs == UNION {{<<P.bulls[frame.bull_portfolio[h][i]].animal,
                               P.cows[frame.cow_portfolio[h][k]].animal>>
                             : i \in 1..Len(frame.bull_portfolio[h]),
                               k \in 1..Len(frame.cow_portfolio[h])}
                           : h \in 1..Len(frame.bull_portfolio)}
        IN /\ {row[1] : row \in rows} = pairs
           /\ \A row \in rows : row[2] = row[1][1] /\ row[3] = row[1][2]
           /\ \A row \in rows, x \in all_records : x.animal # row[1]

(***************************************************************************)
(* The clone of one animal, trial by trial.  With edit_trials < 0 and with *)
(* embryo_trials < 0 the trials are the passes of a loop `while True` that *)
(* is left at the first success; frame.count is the counter of the loop,   *)
(* frame.r the locus that the loop over the loci has come to, and          *)
(* frame.st the state of the clone as edit_locus keeps it.  A loop is      *)
(* followed for MaxTrials passes: the last of them is a success.           *)
(***************************************************************************)
\* The outcomes of one trial, bernoulli.rvs(1 - rate), with rate in percent.
trial_outcomes_failing(rate) == {FALSE}

trial_outcomes(rate) == Bern(100 - rate)

RetryInit ==
    /\ pc = "loci"
    /\ ret = <<>>
    /\ sim = [generation |-> 1]
    /\ \E t \in EditTables, ty \in {"C", "P"}, et \in EditTrials, em \in EmbryoTrials :
         /\ et < 0 \/ em < 0
         /\ call = [recessives |-> t, edit_type |-> ty, edit_trials |-> et, embryo_trials |-> em]
    /\ \E gt \in [1..2 -> Genotypes] :
         frame = [st |-> [ed |-> [Founder(1, 0, 0, 1, gt) EXCEPT !.animal = 3, !.born = 1],
                          rv |-> 1, stop |-> FALSE, trials |-> <<0, 0>>],
                  orig |-> Founder(1, 0, 0, 1, gt), r |-> 1, count |-> 0, dead |-> FALSE]

\* The loop over the loci: a locus with a bounded number of trials, or that
\* needs no edit, is done in one step; with edit_trials < 0 a step is one pass
\* of the loop of trials.
RetryEditLoci ==
    /\ pc = "loci"
    /\ LET r == frame.r
           st == frame.st
           fr == fail_rate(call.recessives[r].edit_mode, call.edit_type)
           left(st2) == IF r = Len(call.recessives) \/ st2.stop THEN "embryo" ELSE "loci"
       IN IF needs_edit(st.ed.genotypes[r]) /\ call.edit_trials < 0
             THEN \E success \in trial_outcomes(fr) :
                    /\ success \/ frame.count + 1 < MaxTrials
                    /\ IF success
                          THEN /\ frame' = [frame EXCEPT
                                      !.st = [st EXCEPT !.ed.genotypes[r] = 1, !.ed.edit_status[r] = 1,
                                                        !.ed.edit_count[r] = frame.count + 1,
                                                        !.rv = r, !.trials[r] = frame.count + 1],
                                      !.r = IF r = Len(call.recessives) THEN r ELSE r + 1,
                                      !.count = 0]
                               /\ pc' = left(st)
                          ELSE /\ frame' = [frame EXCEPT !.count = @ + 1]
                               /\ pc' = "loci"
             ELSE \E st2 \in edit_locus(st, r, call.recessives, call.edit_type, call.edit_trials) :
                    /\ frame' = [frame EXCEPT !.st = st2,
                                              !.r = IF r = Len(call.recessives) THEN r ELSE r + 1]
                    /\ pc' = left(st2)
    /\ UNCHANGED <<call, ret, sim>>

\* The embryo transfer, bounded in one step or pass by pass, and then the
\* marks that every clone gets.
RetryEmbryo ==
    /\ pc = "embryo"
    /\ LET st == frame.st
           dr == death_rate(call.recessives[st.rv].edit_mode, call.edit_type)
           marked(x) == [frame EXCEPT !.st.ed = [x.ed EXCEPT !.reason = "G", !.died = sim.generation],
                                      !.dead = x.dead, !.count = 0]
       IN IF call.embryo_trials < 0
             THEN \E success \in trial_outcomes(dr) :
                    /\ success \/ frame.count + 1 < MaxTrials
                    /\ IF success
                          THEN /\ frame' = marked([ed |-> [st.ed EXCEPT !.et_count = <<frame.count + 1>>],
                                                   dead |-> FALSE])
                               /\ pc' = "cloned"
                          ELSE /\ frame' = [frame EXCEPT !.count = @ + 1]
                               /\ pc' = "embryo"
             ELSE \E x \in embryo_transfer(st, call.recessives, call.edit_type, call.embryo_trials,
                                           sim.generation) :
                    /\ frame' = marked(x)
                    /\ pc' = "cloned"
    /\ UNCHANGED <<call, ret, sim>>

RetryNext == RetryEditLoci \/ RetryEmbryo

\* The trials go on while the loops run, and a loop of fair trials is left.
SpecRetry == RetryInit /\ [][RetryNext]_vars /\ WF_vars(RetryNext)

\* C37: with edit_trials < 0 or embryo_trials < 0 the cloning of an animal
\* comes to an end; then, with embryo_trials < 0, the clone is alive and not
\* recorded as dead, and, with edit_trials < 0, the clone is AA with the
\* edit-success flag set at every locus where the animal copied was Aa or aa.
C37_UnlimitedRetryEnds ==
    <>(/\ pc = "cloned"
       /\ call.embryo_trials < 0 => (~frame.dead /\ frame.st.ed.alive = "A")
       /\ call.edit_trials < 0 =>
              \A r \in 1..Len(call.recessives) :
                  frame.orig.genotypes[r] \in {0, -1} =>
                      (frame.st.ed.genotypes[r] = 1 /\ frame.st.ed.edit_status[r] = 1))

\* A clone made with unlimited trials of both kinds, after a failed edit trial
\* at each of its two loci.
C37_Witness ==
    /\ pc = "cloned"
    /\ call.edit_trials < 0 /\ call.embryo_trials < 0
    /\ frame.st.trials = <<2, 2>>
    /\ frame.st.ed.et_count = <<2>>

(***************************************************************************)
(* One call of move_nucleus_bulls_to_multiplier in generation 1, with the  *)
(* multiplier bulls 1, 2 and the nucleus bulls 11, 12, 13.  frame keeps    *)
(* the two lists of bulls as they were before the call.                    *)
(***************************************************************************)
MoveInit ==
    /\ pc = "move"
    /\ ret = <<>>
    /\ frame = <<>>
    /\ \E bc \in {"random", "polled"}, n \in {1, 500} :
         call = [bull_criterion |-> bc, nucleus_bulls_to_move |-> n, move_age |-> 1]
    /\ \E nb \in 0..2, nn \in 0..3 :
         \E herd \in [1..nb -> 0..1], born \in [1..nn -> {0, -1}], tbv \in [1..nn -> {1, 2}],
            gt \in [1..nn -> {<<1>>, <<-1>>}] :
            sim = [generation |-> 1,
                   main |-> Population(<<>>, [i \in 1..nb |-> Animal(i, 0, 0, -1, "M", herd[i], 1, <<1>>)],
                                       <<>>, <<>>),
                   nucleus |-> Population(<<>>, [i \in 1..nn |-> Animal(10 + i, 0, 0, born[i], "M", 5,
                                                                         tbv[i], gt[i])],
                                          <<>>, <<>>)]

MoveBulls ==
    /\ pc = "move"
    /\ \E r \in move_nucleus_bulls_to_multiplier(sim.main.bulls, sim.nucleus.bulls, sim.generation,
                                                  call.bull_criterion, call.move_age) :
         /\ sim' = [sim EXCEPT !.main.bulls = r.bulls, !.nucleus.bulls = r.nucleus_bulls]
         /\ pc' = IF r.at = "returned" THEN "moved" ELSE "aborted"
    /\ frame' = [bulls |-> sim.main.bulls, nucleus_bulls |-> sim.nucleus.bulls]
    /\ UNCHANGED <<call, ret>>

SpecMove == MoveInit /\ [][MoveBulls]_vars

\* The bulls that the call has added to the multiplier bulls, and the yearlings
\* of the nucleus before the call.
moved_bulls == SubSeq(sim.main.bulls, Len(frame.bulls) + 1, Len(sim.main.bulls))

yearlings == SelectSeq(frame.nucleus_bulls, LAMBDA b : sim.generation - b.born = call.move_age)

\* C38: a call moves no more bulls than nucleus_bulls_to_move, the total number
\* of bulls to move that its documentation names.
C38_NoMoreThanBullsToMove ==
    pc = "moved" => Len(moved_bulls) <= call.nucleus_bulls_to_move

\* Every moved bull was a yearling of the nucleus, is no longer among the
\* nucleus bulls, is once among the multiplier bulls, in a herd that had a
\* multiplier bull before; no other bull has changed; the number of live bulls
\* of the two lists together is as before; and a yearling stays when there is one.
MoveConserves ==
    /\ \A m \in Range(moved_bulls) :
          /\ \E y \in Range(yearlings) : m = [y EXCEPT !.herd = m.herd]
          /\ \A b \in Range(sim.nucleus.bulls) : b.animal # m.animal
          /\ Cardinality({i \in 1..Len(sim.main.bulls) : sim.main.bulls[i].animal = m.animal}) = 1
          /\ \E b \in Range(frame.bulls) : b.herd = m.herd
    /\ SubSeq(sim.main.bulls, 1, Len(frame.bulls)) = frame.bulls
    /\ Range(sim.nucleus.bulls) \subseteq Range(frame.nucleus_bulls)
    /\ Len(sim.main.bulls) + Len(sim.nucleus.bulls) = Len(frame.bulls) + Len(frame.nucleus_bulls)
    /\ yearlings # <<>> => \E y \in Range(yearlings) : y \in Range(sim.nucleus.bulls)

\* C39 as stated: the move conserves the bulls, and the yearlings that stay in
\* the nucleus are those of the highest TBV: none of them has a lower TBV than
\* a bull that was moved.
C39_HighestTbvStays ==
    pc = "moved" =>
        /\ MoveConserves
        /\ \A y \in Range(yearlings) \cap Range(sim.nucleus.bulls), m \in Range(moved_bulls) :
              y.tbv >= m.tbv

\* C39, amended: the move conserves the bulls, and the yearlings that stay are
\* the last in the order of the move: none of them has a lower TBV than a bull
\* that was moved or, with the criterion 'polled', none of them comes before a
\* moved bull in the order on (genotypes, TBV).  A call that finds no herd of
\* multiplier bulls ends with an exception and has moved no bull.
C39_LastInOrderStays ==
    /\ pc = "aborted" =>
          (sim.main.bulls = frame.bulls /\ sim.nucleus.bulls = frame.nucleus_bulls)
    /\ pc = "moved" =>
        /\ MoveConserves
        /\ \A y \in Range(yearlings) \cap Range(sim.nucleus.bulls), m \in Range(moved_bulls) :
              IF call.bull_criterion = "polled"
                 THEN \/ y.genotypes[1] > m.genotypes[1]
                      \/ (y.genotypes = m.genotypes /\ y.tbv >= m.tbv)
                 ELSE y.tbv >= m.tbv

\* Three yearlings and two herds of multiplier bulls, with the criterion
\* 'polled': the two bulls moved include the one of the highest TBV.
C39_Witness ==
    /\ pc = "moved"
    /\ call.bull_criterion = "polled"
    /\ Len(moved_bulls) = 2
    /\ moved_bulls[1].herd # moved_bulls[2].herd
    /\ \E m \in Range(moved_bulls) : \A b \in Range(sim.nucleus.bulls) : m.tbv > b.tbv

=============================================================================
